---- MODULE Spec2Model ----
(***************************************************************************)
(* Model of the HEC-RAS MCP server (server.py) and of the library          *)
(* formatter it was derived from (HdfResultsPlan.py).                      *)
(*                                                                         *)
(* Text is modelled as a sequence of tokens.  A token is one character,    *)
(* except that the phrases the code searches for are single tokens:        *)
(*   "TASK"  = 'Computation Task'     "SPEED" = 'Computation Speed'        *)
(*   "HTTP"  = 'http'                                                      *)
(*   "TAB" "COLON" "SP" "CR" "LF"     = the characters \t : space \r \n    *)
(* and any other string is an ordinary one-character payload token.        *)
(***************************************************************************)
EXTENDS Integers, Sequences, FiniteSets, TLC

VARIABLES
    \* --- formatter (format_compute_messages_local / _format_compute_messages)
    messages_text,    \* the raw log handed to the formatter (token sequence)
    impl,             \* which formatter ran: "none", "local", "reference"
    cls,              \* per split line, the branch the loop took for it
    formatted_parts,  \* the list the formatter joins with '\n' (seq of lines)
    \* --- get_compute_messages_local
    hdf,              \* what the HDF file holds (outcome of the h5py calls)
    name_len,         \* length of Path(hdf_path).name
    raw_msgs,         \* lengths of the general-message lines of the log
    gpc,              \* "call" before, "returned" / "raised" after
    result,           \* the value get_compute_messages_local returned
    \* --- handle_call_tool
    name,             \* tool name of the request
    arguments,        \* argument mapping of the request
    env,              \* file system and library outcomes during the request
    calls,            \* the file-system and library calls made, in order
    response,         \* what handle_call_tool produced
    server_state,     \* what outlives a request: sys.stdout, the last capture
                      \* buffer, the library's global project object
    history,          \* the requests answered so far, with their texts
    \* --- the plan tools of handle_call_tool, in detail
    tool,             \* which of the three plan tools is called
    plan_number,      \* arguments["plan_number"] (token sequence)
    project,          \* the project folder, its plan table, the library
    plan_reply,       \* what the branch did and returned
    \* --- hecras_project_summary, in detail
    summary_arguments, \* the show_* flags and showmore of the request
    ras,              \* the project object init_ras_project returns
    summary_reply,    \* the parts the branch joined and the text it returned
    \* --- filter_dataframe_columns and truncate_output, called on their own
    filter_call,      \* the arguments [df, df_type, showmore]
    filter_result,    \* the pair (table, count) returned
    truncate_call,    \* the arguments [text, max_tokens]
    truncate_result,  \* the text returned
    \* --- the event loop that runs the request handlers
    tasks,            \* per request its mode, position, old_stdout and buffer
    running,          \* the handler the loop is running, 0 when none
    sys_stdout,       \* sys.stdout: 0 the original stream, h the buffer of h
    console           \* what was printed to the original stream, by whom

vars == << messages_text, impl, cls, formatted_parts,
           hdf, name_len, raw_msgs, gpc, result,
           name, arguments, env, calls, response, server_state, history,
           tool, plan_number, project, plan_reply,
           summary_arguments, ras, summary_reply,
           filter_call, filter_result, truncate_call, truncate_result,
           tasks, running, sys_stdout, console >>

planVars    == << tool, plan_number, project, plan_reply >>
summaryVars == << summary_arguments, ras, summary_reply >>
filterVars  == << filter_call, filter_result >>
truncVars   == << truncate_call, truncate_result >>
loopVars    == << tasks, running, sys_stdout, console >>
detailVars  == << planVars, summaryVars, filterVars, truncVars, loopVars >>

PlanIdle ==
    /\ tool = "" /\ plan_number = << >> /\ project = << >> /\ plan_reply = << >>

SummaryIdle ==
    /\ summary_arguments = << >> /\ ras = << >> /\ summary_reply = << >>

FilterIdle == filter_call = << >> /\ filter_result = << >>

TruncIdle == truncate_call = << >> /\ truncate_result = << >>

LoopIdle ==
    /\ tasks = << >> /\ running = 0 /\ sys_stdout = 0 /\ console = << >>

\* the parts of the detailed model other than g are not in use, and stay so
OthersIdle(g) ==
    /\ g = "plan" \/ PlanIdle
    /\ g = "summary" \/ SummaryIdle
    /\ g = "filter" \/ FilterIdle
    /\ g = "truncate" \/ TruncIdle
    /\ g = "loop" \/ LoopIdle

OthersUnchanged(g) ==
    /\ IF g = "plan" THEN TRUE ELSE UNCHANGED planVars
    /\ IF g = "summary" THEN TRUE ELSE UNCHANGED summaryVars
    /\ IF g = "filter" THEN TRUE ELSE UNCHANGED filterVars
    /\ IF g = "truncate" THEN TRUE ELSE UNCHANGED truncVars
    /\ IF g = "loop" THEN TRUE ELSE UNCHANGED loopVars

DetailIdle == OthersIdle("")

fmtVars  == << messages_text, impl, cls, formatted_parts >>
gcmVars  == << hdf, name_len, raw_msgs, gpc, result >>
toolVars == << name, arguments, env, calls, response, server_state, history,
              detailVars >>

(***************************************************************************)
(* Generic sequence helpers                                                *)
(***************************************************************************)
RECURSIVE Flatten(_)
Flatten(ss) == IF ss = << >> THEN << >> ELSE Head(ss) \o Flatten(Tail(ss))

\* sum of a sequence of numbers (halving, to keep the recursion shallow)
RECURSIVE SumSeq(_)
SumSeq(s) ==
    IF s = << >> THEN 0
    ELSE IF Len(s) = 1 THEN s[1]
    ELSE LET h == Len(s) \div 2
         IN  SumSeq(SubSeq(s, 1, h)) + SumSeq(SubSeq(s, h + 1, Len(s)))

Contains(line, tok) == \E i \in 1..Len(line) : line[i] = tok

Repeat(tok, n) == [i \in 1..n |-> tok]

Max(a, b) == IF a >= b THEN a ELSE b
Min(a, b) == IF a <= b THEN a ELSE b

\* Sequences over S of length 0..n
SeqsUpTo(S, n) == UNION { [1..k -> S] : k \in 0..n }

(***************************************************************************)
(* Python string operations on token sequences                             *)
(***************************************************************************)
\* str.strip() removes these from both ends
Whitespace == {"SP", "TAB", "CR", "LF"}

\* number of characters a token stands for
Width(tok) == CASE tok = "TASK"  -> 16
                [] tok = "SPEED" -> 17
                [] tok = "HTTP"  -> 4
                [] OTHER         -> 1

\* len(s)
StrLen(s) == SumSeq([i \in 1..Len(s) |-> Width(s[i])])

\* s.lstrip(): from the first token that is not white space
LStrip(s) ==
    LET solid == { i \in 1..Len(s) : s[i] \notin Whitespace }
    IN  IF solid = {} THEN << >>
        ELSE SubSeq(s, CHOOSE i \in solid : \A j \in solid : i <= j, Len(s))

\* s.rstrip(): up to the last token that is not white space
RStrip(s) ==
    LET solid == { i \in 1..Len(s) : s[i] \notin Whitespace }
    IN  IF solid = {} THEN << >>
        ELSE SubSeq(s, 1, CHOOSE i \in solid : \A j \in solid : j <= i)

Strip(s) == RStrip(LStrip(s))

\* s.startswith(sep) for a separator of one or two tokens
StartsWith(s, sep) ==
    /\ Len(s) >= Len(sep)
    /\ \A i \in 1..Len(sep) : s[i] = sep[i]

\* s.split(sep): the pieces between the occurrences of sep, always at least
\* one piece. A separator of one token, and '\r\n', cannot overlap itself,
\* so every occurrence separates.
Split(s, sep) ==
    LET n      == Len(sep)
        at     == { i \in 1..(Len(s) - n + 1) : \A j \in 1..n : s[i + j - 1] = sep[j] }
        k      == Cardinality(at)
        pos(m) == CHOOSE i \in at : Cardinality({ j \in at : j < i }) = m - 1
    IN  [m \in 1..(k + 1) |->
            SubSeq(s, IF m = 1 THEN 1 ELSE pos(m - 1) + n,
                      IF m = k + 1 THEN Len(s) ELSE pos(m) - 1)]

\* s.split(sep, 1): at most one split, at the first occurrence
Split1(s, tok) ==
    LET at == { i \in 1..Len(s) : s[i] = tok }
    IN  IF at = {} THEN << s >>
        ELSE LET first == CHOOSE i \in at : \A j \in at : i <= j
             IN  << SubSeq(s, 1, first - 1), SubSeq(s, first + 1, Len(s)) >>

\* s.replace(tok, '')
Remove(s, tok) == SelectSeq(s, LAMBDA t : t # tok)

\* mutant: a string longer than w is cut to w characters
PadTo_Truncating(s, w) ==
    LET fits == { k \in 0..Len(s) : StrLen(SubSeq(s, 1, k)) <= w }
        keep == CHOOSE k \in fits : \A j \in fits : j <= k
        kept == SubSeq(s, 1, keep)
    IN  kept \o Repeat("SP", w - StrLen(kept))

\* f"{s:w}" and f"{s:<w}": pad with spaces on the right up to w characters,
\* never shortening s
PadTo(s, w) == s \o Repeat("SP", Max(0, w - StrLen(s)))

\* '\r\n' in s
HasCRLF(s) == \E i \in 1..(Len(s) - 1) : s[i] = "CR" /\ s[i + 1] = "LF"

\* mutant: every LF ends a line, whatever else the text holds
SplitLines_EveryLF(text) == Split(text, << "LF" >>)

\* lines = text.split('\r\n') if '\r\n' in text else text.split('\n')
SplitLines(text) ==
    IF HasCRLF(text) THEN Split(text, << "CR", "LF" >>)
                     ELSE Split(text, << "LF" >>)

(***************************************************************************)
(* The compute-message formatter                                           *)
(***************************************************************************)
\* f"Compute Messages from: {Path(hdf_file_path).name}", "=" * 80, ""
HeaderBlock == << << "Compute Messages from: ", "plan.hdf" >>, << "=x80" >>, << >> >>

\* mutant: the label is padded to 60 characters
FormatGeneralMessage_Wide(msg) ==
    IF Contains(msg, "COLON") /\ ~StartsWith(msg, << "HTTP" >>)
    THEN LET kv == Split1(msg, "COLON")
         IN  PadTo(Strip(kv[1]), 60) \o << "SP", "COLON", "SP" >> \o Strip(kv[2])
    ELSE msg

\* mutant: label and value are separated by a tab
FormatGeneralMessage_TabSeparated(msg) ==
    IF Contains(msg, "COLON") /\ ~StartsWith(msg, << "HTTP" >>)
    THEN LET kv == Split1(msg, "COLON")
         IN  PadTo(Strip(kv[1]), 40) \o << "TAB" >> \o Strip(kv[2])
    ELSE msg

\* mutant: the message is split at every colon and two pieces are kept
FormatGeneralMessage_EveryColon(msg) ==
    IF Contains(msg, "COLON") /\ ~StartsWith(msg, << "HTTP" >>)
    THEN LET kv == Split(msg, << "COLON" >>)
         IN  PadTo(Strip(kv[1]), 40) \o << "SP", "COLON", "SP" >> \o Strip(kv[2])
    ELSE msg

\* if ':' in msg and not msg.startswith('http'):
\*     key, value = msg.split(':', 1); f"{key.strip():40} : {value.strip()}"
\* else: msg
FormatGeneralMessage(msg) ==
    IF Contains(msg, "COLON") /\ ~StartsWith(msg, << "HTTP" >>)
    THEN LET kv == Split1(msg, "COLON")
         IN  PadTo(Strip(kv[1]), 40) \o << "SP", "COLON", "SP" >> \o Strip(kv[2])
    ELSE msg

\* the "General Messages:" block both formatters emit
GeneralSection(general_messages) ==
    << << "General Messages:" >>, << "-x40" >> >>
        \o [k \in 1..Len(general_messages) |-> FormatGeneralMessage(general_messages[k])]

\* mutant: the loop skips a task or speed record and goes on (continue
\* instead of break)
LocalLoop_Continue(lines, i, general_messages, c) ==
    LET stripped == [k \in 1..Len(lines) |-> Strip(lines[k])]
        record(l) == \/ Contains(l, "TASK") /\ Contains(l, "TAB")
                     \/ Contains(l, "SPEED") /\ Contains(l, "TAB")
        rest      == SubSeq(stripped, i, Len(lines))
    IN  [general |-> general_messages
                       \o SelectSeq(rest, LAMBDA l : l # << >> /\ ~record(l)),
         cls     |-> c \o [k \in 1..Len(rest) |->
                              IF rest[k] = << >> THEN "blank"
                              ELSE IF record(rest[k]) THEN "task" ELSE "general"]]

\* server.py: the loop of format_compute_messages_local.  It stops (break) at
\* the first task or speed record; the lines after it are never visited.
RECURSIVE LocalLoop(_, _, _, _)
LocalLoop(lines, i, general_messages, c) ==
    IF i > Len(lines) THEN [general |-> general_messages, cls |-> c]
    ELSE LET line == Strip(lines[i])
         IN  IF line = << >>
             THEN LocalLoop(lines, i + 1, general_messages, Append(c, "blank"))
             ELSE IF Contains(line, "TASK") /\ Contains(line, "TAB")
             THEN [general |-> general_messages,
                   cls |-> c \o << "task" >> \o Repeat("unvisited", Len(lines) - i)]
             ELSE IF Contains(line, "SPEED") /\ Contains(line, "TAB")
             THEN [general |-> general_messages,
                   cls |-> c \o << "speed" >> \o Repeat("unvisited", Len(lines) - i)]
             ELSE LocalLoop(lines, i + 1, Append(general_messages, line),
                            Append(c, "general"))

\* server.py: format_compute_messages_local, as the list it joins with '\n'
format_compute_messages_local(text) ==
    LET r == LocalLoop(SplitLines(text), 1, << >>, << >>)
    IN  [parts |-> HeaderBlock \o
                   (IF r.general # << >> THEN GeneralSection(r.general) ELSE << >>),
         cls |-> r.cls]

\* HdfResultsPlan.py: the categorising loop of _format_compute_messages
RefCategory(line) ==
    IF line = << >> THEN "blank"
    ELSE IF Contains(line, "TASK") /\ Contains(line, "TAB") THEN "task"
    ELSE IF Contains(line, "SPEED") /\ Contains(line, "TAB") THEN "speed"
    ELSE "general"

RefLoop(lines) ==
    LET stripped == [i \in 1..Len(lines) |-> Strip(lines[i])]
    IN  [general |-> SelectSeq(stripped, LAMBDA l : RefCategory(l) = "general"),
         tasks   |-> SelectSeq(stripped, LAMBDA l : RefCategory(l) = "task"),
         speeds  |-> SelectSeq(stripped, LAMBDA l : RefCategory(l) = "speed"),
         cls     |-> [i \in 1..Len(lines) |-> RefCategory(stripped[i])]]

\* parts = line.split('\t'); if len(parts) >= 2:
\*   f"{parts[0].replace(phrase, '').strip():<40} {parts[1].strip():<20}"
\* (a record always holds a tab, so there are always two parts)
RecordRow(line, phrase) ==
    LET parts == Split(line, << "TAB" >>)
    IN  PadTo(Strip(Remove(parts[1], phrase)), 40) \o << "SP" >>
            \o PadTo(Strip(parts[2]), 20)

\* heading, rule, f"{'Task':<40} {column:<20}" (one token), rule, rows, ""
RecordTable(heading, column, records, phrase) ==
    << << heading >>, << "-x60" >>, << column >>, << "-x60" >> >>
        \o [k \in 1..Len(records) |-> RecordRow(records[k], phrase)]
        \o << << >> >>

\* HdfResultsPlan.py: _format_compute_messages, as the list it joins with '\n'
format_compute_messages_reference(text) ==
    LET r == RefLoop(SplitLines(text))
    IN  [parts |-> HeaderBlock
            \o (IF r.general # << >>
                THEN GeneralSection(r.general) \o << << >> >> ELSE << >>)
            \o (IF r.tasks # << >>
                THEN RecordTable("Computation Tasks:", "Task|Time",
                                 r.tasks, "TASK")
                ELSE << >>)
            \o (IF r.speeds # << >>
                THEN RecordTable("Computation Speed:", "Task|Simulation/Runtime",
                                 r.speeds, "SPEED")
                ELSE << >>),
         cls |-> r.cls]

(***************************************************************************)
(* Specification of the formatter: a raw log, then one formatter run       *)
(***************************************************************************)
\* number of log lines in a raw log
MaxLines == 3

\* the log lines the raw logs are built from
SampleLines ==
    { << >>,                                    \* blank
      << "SP" >>,                               \* whitespace only
      << "a" >>,                                \* plain message
      << "P", "COLON", "SP", "v" >>,            \* key: value
      << "TASK", "TAB", "g", "TAB", "t" >>,     \* task record
      << "TASK", "COLON", "TAB", "k" >>,        \* task record holding a colon
      << "SPEED", "TAB", "u" >>,                \* speed record
      << "TASK", "SP", "b" >>,                  \* phrase, no tab
      << "TASK", "TAB" >>,                      \* tab trimmed away
      << "HTTP", "COLON", "w" >>,               \* url
      << "SPEED", "TASK", "TAB", "z" >>,        \* both phrases
      << "c", "LF", "d" >>,                     \* a lone LF inside
      << "TASK", "SP", "SPEED", "SP", "TASK", "COLON", "v", "COLON", "w" >>,
                                                \* 51-character label, two colons
      << "SPEED", "TAB", "s", "TAB", "r" >> }   \* another speed record

\* the lines joined by a terminator
RECURSIVE Join(_, _)
Join(ls, sep) ==
    IF ls = << >> THEN << >>
    ELSE IF Len(ls) = 1 THEN ls[1]
    ELSE ls[1] \o sep \o Join(Tail(ls), sep)

RawLogs ==
    { Join(ls, sep) : ls \in SeqsUpTo(SampleLines, MaxLines),
                      sep \in { << "LF" >>, << "CR", "LF" >> } }

\* the scenario log of the specification:
\* "Plan Name: Test\nComputation Task\tGeometry\t00:01:23\n
\*  Computation Speed\tUnsteady\t2.5\n"
ScenarioLog ==
    << "P", "l", "a", "n", "SP", "N", "a", "m", "e", "COLON", "SP",
       "T", "e", "s", "t", "LF",
       "TASK", "TAB", "G", "e", "o", "m", "e", "t", "r", "y", "TAB",
       "0", "0", "COLON", "0", "1", "COLON", "2", "3", "LF",
       "SPEED", "TAB", "U", "n", "s", "t", "e", "a", "d", "y", "TAB",
       "2", ".", "5", "LF" >>

GcmIdle ==
    /\ hdf = "none" /\ name_len = 0 /\ raw_msgs = << >>
    /\ gpc = "idle" /\ result = << >>

\* the process after start-up: sys.stdout is the terminal stream, nothing has
\* been captured, the library holds no project
StartState == [stdout |-> "terminal", captured |-> << >>, ras |-> "none"]

ToolIdle ==
    /\ name = "" /\ arguments = << >> /\ env = << >>
    /\ calls = << >> /\ response = << >>
    /\ server_state = StartState /\ history = << >>
    /\ DetailIdle

FmtIdle ==
    /\ messages_text = << >> /\ impl = "idle" /\ cls = << >>
    /\ formatted_parts = << >>

InitFmt ==
    /\ messages_text \in RawLogs \cup { ScenarioLog }
    /\ impl = "none"
    /\ cls = << >>
    /\ formatted_parts = << >>
    /\ GcmIdle /\ ToolIdle

\* server.py: format_compute_messages_local(messages_text, hdf_file_path)
FormatLocal ==
    /\ impl = "none"
    /\ LET r == format_compute_messages_local(messages_text)
       IN  /\ formatted_parts' = r.parts
           /\ cls' = r.cls
    /\ impl' = "local"
    /\ UNCHANGED << messages_text, gcmVars, toolVars >>

\* HdfResultsPlan.py: _format_compute_messages(messages_text, hdf_file_path)
FormatReference ==
    /\ impl = "none"
    /\ LET r == format_compute_messages_reference(messages_text)
       IN  /\ formatted_parts' = r.parts
           /\ cls' = r.cls
    /\ impl' = "reference"
    /\ UNCHANGED << messages_text, gcmVars, toolVars >>

NextFmt == FormatLocal \/ FormatReference

SpecFmt == InitFmt /\ [][NextFmt]_vars

(***************************************************************************)
(* get_compute_messages_local: read the log, format it, bound its size     *)
(*                                                                         *)
(* Here a text is the sequence of the lengths of its lines (the lines are  *)
(* joined by one '\n' each), and a line of an output is a sequence of      *)
(* pieces, each piece a range of characters of a line of the formatted     *)
(* text or the notice.                                                     *)
(***************************************************************************)
\* max_chars = 10000 * 4
max_chars == 10000 * 4

\* lines[-50:]
TailLineCount == 50

\* len("\n\n[OUTPUT TRUNCATED: ... last 50 lines.]\n\n"): 89 characters
\* between two pairs of newlines
NoticeTextLen == 89
NoticeLen == NoticeTextLen + 4

\* len("Compute Messages from: ")
HeaderPrefixLen == 23

\* len of a text given by its line lengths
TextLen(lens) == IF lens = << >> THEN 0 ELSE SumSeq(lens) + Len(lens) - 1

\* format_compute_messages_local on a log of plain general messages (no
\* colon, no record, no blank line), as line lengths
FormattedLens(nlen, msgs) ==
    << HeaderPrefixLen + nlen, 80, 0 >>
        \o (IF msgs # << >> THEN << 17, 40 >> \o msgs ELSE << >>)

\* offsets of the first character of each line in the text
RECURSIVE LineStarts(_)
LineStarts(lens) ==
    IF Len(lens) <= 1 THEN [i \in 1..Len(lens) |-> 0]
    ELSE LET h     == Len(lens) \div 2
             left  == LineStarts(SubSeq(lens, 1, h))
             right == LineStarts(SubSeq(lens, h + 1, Len(lens)))
             shift == left[h] + lens[h] + 1
         IN  left \o [i \in 1..Len(right) |-> right[i] + shift]

\* len(s[:k]) for a string of length n
SliceLen(n, k) == IF k >= 0 THEN Min(k, n) ELSE Max(0, n + k)

\* s[:p].rfind('\n'): index of the last newline among the first p characters
RFindNewline(lens, p) ==
    LET starts == LineStarts(lens)
        ends == { starts[i + 1] - 1 : i \in 1..(Len(lens) - 1) }
        seen == { e \in ends : e < p }
    IN  IF seen = {} THEN -1 ELSE CHOOSE e \in seen : \A f \in seen : f <= e

\* one line of a string holding the characters a..b of line i of the text
TextPiece(i, a, b) ==
    IF b > a THEN << [src |-> "text", line |-> i, from |-> a, to |-> b] >> ELSE << >>

\* text.split('\n') of the whole formatted text
WholeLines(lens) == [i \in 1..Len(lens) |-> TextPiece(i, 0, lens[i])]

\* (text[:h]).split('\n')
PrefixLines(lens, h) ==
    LET starts == LineStarts(lens)
        started == { i \in 1..Len(lens) : i = 1 \/ starts[i] <= h }
    IN  [i \in 1..Cardinality(started) |->
            TextPiece(i, 0, Min(lens[i], h - starts[i]))]

\* truncation_notice.split('\n')
NoticeLines ==
    << << >>, << >>,
       << [src |-> "notice", line |-> 0, from |-> 0, to |-> NoticeTextLen] >>,
       << >>, << >> >>

\* mutant: the operands of + are exchanged
ConcatLines_Swapped(a, b) ==
    SubSeq(b, 1, Len(b) - 1) \o << b[Len(b)] \o a[1] >> \o Tail(a)

\* (a + b).split('\n') from a.split('\n') and b.split('\n')
ConcatLines(a, b) ==
    SubSeq(a, 1, Len(a) - 1) \o << a[Len(a)] \o b[1] >> \o Tail(b)

\* mutant: one line too few is preserved (lines[-49:])
TailStart_Short(lens) ==
    IF Len(lens) > TailLineCount THEN Len(lens) - TailLineCount + 2 ELSE 1

\* first line of lines[-50:] if len(lines) > 50 else lines
TailStart(lens) ==
    IF Len(lens) > TailLineCount THEN Len(lens) - TailLineCount + 1 ELSE 1

\* the kept length of truncated_beginning
HeadLen(lens) ==
    LET last_50_len   == TextLen(SubSeq(lens, TailStart(lens), Len(lens)))
        available     == max_chars - last_50_len - NoticeLen
        p             == SliceLen(TextLen(lens), available)
        last_newline  == RFindNewline(lens, p)
    IN  IF last_newline > 0 THEN last_newline ELSE p

\* mutant: the boundary itself is cut too (>= instead of >)
TooLong_Inclusive(lens) == TextLen(lens) >= max_chars

\* is the formatted text cut?  if len(formatted_output) > max_chars
TooLong(lens) == TextLen(lens) > max_chars

\* lines 91-114: the size bound.  head_len = len(truncated_beginning),
\* tail_start = index of the first of the preserved last lines
BoundSize(lens) ==
    IF TooLong(lens)
    THEN LET h == HeadLen(lens)
         IN  [kind |-> "report", truncated |-> TRUE,
              head_len |-> h, tail_start |-> TailStart(lens),
              lines |-> ConcatLines(ConcatLines(PrefixLines(lens, h), NoticeLines),
                                    SubSeq(WholeLines(lens), TailStart(lens), Len(lens))),
              len |-> h + NoticeLen
                       + TextLen(SubSeq(lens, TailStart(lens), Len(lens)))]
    ELSE [kind |-> "report", truncated |-> FALSE, head_len |-> 0, tail_start |-> 0,
          lines |-> WholeLines(lens), len |-> TextLen(lens)]

\* a one-line string the function returns instead of a report
OneLine(what) ==
    [kind |-> what, truncated |-> FALSE, head_len |-> 0, tail_start |-> 0,
     lines |-> << << [src |-> what, line |-> 0, from |-> 0, to |-> 1] >> >>,
     len |-> 1]

\* what h5py finds when the function opens and reads the file
HdfOutcomes ==
    { "file_not_found",      \* h5py.File raises FileNotFoundError
      "open_error",          \* h5py.File raises OSError (not an HDF file)
      "no_dataset",          \* the path is not in the file
      "not_a_dataset",       \* the path is a group
      "read_error",          \* reading the dataset raises
      "bytes",               \* a bytes value, valid UTF-8
      "bytes_undecodable",   \* a bytes value, decode raises UnicodeDecodeError
      "string_array",        \* an array of byte strings
      "other" }              \* anything else: str(data)

\* the try block (lines 60-114): the exception it ends with, or its value
TryBody(h, nlen, msgs) ==
    CASE h = "file_not_found"    -> [exc |-> "FileNotFoundError", value |-> << >>]
      [] h = "open_error"        -> [exc |-> "OSError", value |-> << >>]
      [] h = "no_dataset"        -> [exc |-> "none", value |-> OneLine("not found")]
      [] h = "not_a_dataset"     -> [exc |-> "none", value |-> OneLine("unexpected type")]
      [] h = "read_error"        -> [exc |-> "OSError", value |-> << >>]
      [] h = "bytes_undecodable" -> [exc |-> "UnicodeDecodeError", value |-> << >>]
      [] OTHER -> [exc |-> "none", value |-> BoundSize(FormattedLens(nlen, msgs))]

\* mutant: the general clause re-raises, as the library's method does
ExceptClauses_Reraise(exc) ==
    IF exc = "FileNotFoundError"
    THEN [raised |-> "none", value |-> OneLine("HDF file not found")]
    ELSE [raised |-> "RuntimeError", value |-> << >>]

\* the except clauses (lines 116-120): both return a string
ExceptClauses(exc) ==
    IF exc = "FileNotFoundError"
    THEN [raised |-> "none", value |-> OneLine("HDF file not found")]
    ELSE [raised |-> "none", value |-> OneLine("Error reading compute messages")]

\* server.py: get_compute_messages_local(hdf_path)
get_compute_messages_local(h, nlen, msgs) ==
    LET b == TryBody(h, nlen, msgs)
    IN  IF b.exc = "none" THEN [raised |-> "none", value |-> b.value]
        ELSE ExceptClauses(b.exc)

(***************************************************************************)
(* Specification of get_compute_messages_local                             *)
(***************************************************************************)
\* number of blocks of equally long messages in a log
MaxBlocks == 2

\* a block is a number of messages of one length
BlockCounts == {1, 45, 50}
BlockLens   == {1, 750, 797, 900, 39827, 39828}
NameLens    == {8}

Blocks == [count : BlockCounts, len : BlockLens]

RECURSIVE Expand(_)
Expand(bs) ==
    IF bs = << >> THEN << >>
    ELSE Repeat(Head(bs).len, Head(bs).count) \o Expand(Tail(bs))

ReadableOutcomes == {"bytes", "string_array", "other"}

\* the scenario logs of the specification: 60 general messages, 45,000
\* characters with the 59 newlines between them
ScenarioMessages ==
    { Repeat(749, 59) \o << 750 >>,
      << 750 >> \o Repeat(749, 59),
      Repeat(1, 59) \o << 44882 >>,
      << 44882 >> \o Repeat(1, 59) }

InitGcm ==
    /\ hdf \in HdfOutcomes
    /\ name_len \in NameLens
    /\ \/ \E bs \in SeqsUpTo(Blocks, MaxBlocks) :
             /\ hdf \notin ReadableOutcomes => bs = << >>
             /\ raw_msgs = Expand(bs)
       \/ /\ hdf \in ReadableOutcomes
          /\ raw_msgs \in ScenarioMessages
    /\ gpc = "call"
    /\ result = << >>
    /\ FmtIdle /\ ToolIdle

GetComputeMessagesLocal ==
    /\ gpc = "call"
    /\ LET r == get_compute_messages_local(hdf, name_len, raw_msgs)
       IN  /\ gpc' = IF r.raised = "none" THEN "returned" ELSE "raised"
           /\ result' = r.value
    /\ UNCHANGED << hdf, name_len, raw_msgs, fmtVars, toolVars >>

NextGcm == GetComputeMessagesLocal

SpecGcm == InitGcm /\ [][NextGcm]_vars

(***************************************************************************)
(* handle_list_tools and handle_call_tool                                  *)
(*                                                                         *)
(* A text is a tuple of its fragments.  An argument is "absent", a "str"   *)
(* or of a "wrong_type"; arguments.mapping is FALSE when the argument      *)
(* object is no mapping at all (None).                                     *)
(***************************************************************************)
\* the names of the tools handle_list_tools returns
ListedTools ==
    { "hecras_project_summary", "read_plan_description", "get_plan_results_summary",
      "get_hdf_structure", "get_projection_info", "get_compute_messages" }

Raise(exc, made)   == [exc |-> exc, text |-> << >>, calls |-> made]
Return(text, made) == [exc |-> "none", text |-> text, calls |-> made]

\* Path(arguments["project_path"]): the exception it raises, if any
ReadProjectPath(args) ==
    IF ~args.mapping THEN "TypeError"
    ELSE IF args.project_path = "absent" THEN "KeyError"
    ELSE IF args.project_path = "wrong_type" THEN "TypeError"
    ELSE "none"

\* project_path, then plan_number = arguments["plan_number"], then
\* plan_number.isdigit()
ReadPlanArguments(args) ==
    IF ReadProjectPath(args) # "none" THEN ReadProjectPath(args)
    ELSE IF args.plan_number = "absent" THEN "KeyError"
    ELSE IF args.plan_number = "wrong_type" THEN "AttributeError"
    ELSE "none"

\* Path(arguments["hdf_path"])
ReadHdfPath(args) ==
    IF ~args.mapping THEN "TypeError"
    ELSE IF args.hdf_path = "absent" THEN "KeyError"
    ELSE IF args.hdf_path = "wrong_type" THEN "TypeError"
    ELSE "none"

\* try block of the hecras_project_summary branch (lines 408-494)
ProjectSummaryBody(args, e) ==
    IF ReadProjectPath(args) # "none" THEN Raise(ReadProjectPath(args), << >>)
    ELSE IF ~e.path_ok
    THEN Return(<< "Error: The specified project folder does not exist or is not a directory: ",
                   "project_path" >>, << "exists" >>)
    ELSE IF e.init # "ok" THEN Raise(e.init, << "exists", "init_ras_project" >>)
    ELSE IF e.query # "ok" THEN Raise(e.query, << "exists", "init_ras_project" >>)
    ELSE Return(<< "HEC-RAS Project: ", "summary" >>, << "exists", "init_ras_project" >>)

\* try block of the read_plan_description branch (lines 506-538)
PlanDescriptionBody(args, e) ==
    IF ReadPlanArguments(args) # "none" THEN Raise(ReadPlanArguments(args), << >>)
    ELSE IF ~e.path_ok
    THEN Return(<< "Error: The specified project folder does not exist: ",
                   "project_path" >>, << "exists" >>)
    ELSE IF e.init # "ok" THEN Raise(e.init, << "exists", "init_ras_project" >>)
    ELSE IF e.query # "ok"
    THEN Raise(e.query, << "exists", "init_ras_project", "RasPlan.read_plan_description" >>)
    ELSE Return(<< "Plan Description for Plan ", "plan_number" >>,
                << "exists", "init_ras_project", "RasPlan.read_plan_description" >>)

\* the four guarded library calls of get_plan_results_summary (lines 620-652):
\* an exception becomes a line of the text
ResultsSections(e) ==
    IF e.query = "ok"
    THEN << "UNSTEADY INFO", "UNSTEADY SUMMARY", "VOLUME ACCOUNTING", "RUNTIME DATA" >>
    ELSE << "Unsteady info not available: ", "Unsteady summary not available: ",
            "Volume accounting error: ", "Runtime data error: " >>

ResultsCalls ==
    << "HdfResultsPlan.get_unsteady_info", "HdfResultsPlan.get_unsteady_summary",
       "HdfResultsPlan.get_volume_accounting", "HdfResultsPlan.get_runtime_data" >>

\* try block of the get_plan_results_summary branch (lines 555-657)
ResultsSummaryBody(args, e) ==
    IF ReadPlanArguments(args) # "none" THEN Raise(ReadPlanArguments(args), << >>)
    ELSE IF ~e.path_ok
    THEN Return(<< "Error: The specified project folder does not exist: ",
                   "project_path" >>, << "exists" >>)
    ELSE IF e.init # "ok" THEN Raise(e.init, << "exists", "init_ras_project" >>)
    ELSE IF e.plan_hdf = "KeyError"
    THEN Raise("KeyError", << "exists", "init_ras_project" >>)
    ELSE IF e.plan_hdf = "missing"
    THEN Return(<< "Error: Plan '", "plan_number",
                   "' not found or has no results HDF file" >>,
                << "exists", "init_ras_project", "exists" >>)
    ELSE Return(<< "Plan Results Summary: ", "plan_number" >> \o ResultsSections(e),
                << "exists", "init_ras_project", "exists" >> \o ResultsCalls)

\* try block of the get_compute_messages branch (lines 668-732);
\* get_compute_messages_local returns a string whatever the file holds
ComputeMessagesBody(args, e) ==
    IF ReadPlanArguments(args) # "none" THEN Raise(ReadPlanArguments(args), << >>)
    ELSE IF ~e.path_ok
    THEN Return(<< "Error: The specified project folder does not exist: ",
                   "project_path" >>, << "exists" >>)
    ELSE IF e.init # "ok" THEN Raise(e.init, << "exists", "init_ras_project" >>)
    ELSE IF e.plan_hdf = "KeyError"
    THEN Raise("KeyError", << "exists", "init_ras_project" >>)
    ELSE IF e.plan_hdf = "missing"
    THEN Return(<< "Error: Plan '", "plan_number",
                   "' not found or has no results HDF file" >>,
                << "exists", "init_ras_project", "exists" >>)
    ELSE Return(<< "get_compute_messages_local(plan_hdf_path)" >>,
                << "exists", "init_ras_project", "exists", "h5py.File" >>)

\* mutant: the buffer of the last request is used again
StringIO_Reused(previous) == previous

\* sys.stdout = buffer = io.StringIO(): a new, empty buffer for each request,
\* whatever the last one held
StringIO(previous) == << >>

\* what HdfBase.get_dataset_info prints into the buffer
StructureOutput(buffer) == buffer \o << "dataset info" >>

\* try block of the get_hdf_structure branch (lines 743-805)
HdfStructureBody(args, e) ==
    IF ReadHdfPath(args) # "none" THEN Raise(ReadHdfPath(args), << >>)
    ELSE IF ~e.path_ok
    THEN Return(<< "Error: The specified HDF file does not exist: ", "hdf_path" >>,
                << "exists" >>)
    ELSE IF args.paths_only
    THEN IF e.query # "ok" THEN Raise(e.query, << "exists", "h5py.File" >>)
         ELSE IF ~e.group_ok
         THEN Return(<< "Error: Group path '", "group_path", "' not found in HDF file" >>,
                     << "exists", "h5py.File" >>)
         ELSE Return(<< "HDF File Structure (Paths Only): ", "hdf_path" >>,
                     << "exists", "h5py.File" >>)
    ELSE IF e.query # "ok" THEN Raise(e.query, << "exists", "HdfBase.get_dataset_info" >>)
         ELSE Return(<< "HDF File Structure: ", "hdf_path" >>
                         \o StructureOutput(StringIO(server_state.captured)),
                     << "exists", "HdfBase.get_dataset_info" >>)

\* mutant: get_projection_info calls the library without checking the path
ProjectionBody_Unchecked(args, e) ==
    IF ReadHdfPath(args) # "none" THEN Raise(ReadHdfPath(args), << >>)
    ELSE IF ~e.path_ok \/ e.query # "ok"
    THEN Raise(IF e.query # "ok" THEN e.query ELSE "OSError", << "HdfBase.get_projection" >>)
    ELSE Return(<< "Projection Info for: ", "hdf_path" >>, << "HdfBase.get_projection" >>)

\* try block of the get_projection_info branch (lines 816-839)
ProjectionBody(args, e) ==
    IF ReadHdfPath(args) # "none" THEN Raise(ReadHdfPath(args), << >>)
    ELSE IF ~e.path_ok
    THEN Return(<< "Error: The specified HDF file does not exist: ", "hdf_path" >>,
                << "exists" >>)
    ELSE IF e.query # "ok" THEN Raise(e.query, << "exists", "HdfBase.get_projection" >>)
    ELSE Return(<< "Projection Info for: ", "hdf_path" >>,
                << "exists", "HdfBase.get_projection" >>)

\* the exceptions the modelled calls raise; all are subclasses of Exception
Exceptions == { "KeyError", "TypeError", "AttributeError", "ValueError", "OSError" }

\* mutant: the branch catches ValueError only
ExceptText_ValueErrorOnly(branch, exc) ==
    IF exc = "ValueError" THEN << "Error: ", branch >> ELSE << >>

\* the except clauses of a branch: the text they return for an exception,
\* << >> when no clause catches it
ExceptText(branch, exc) ==
    CASE branch = "hecras_project_summary" ->
            << "Error querying HEC-RAS project: ", exc >>
      [] branch = "read_plan_description" ->
            IF exc = "ValueError"
            THEN << "Error: Plan '", "plan_number", "' not found in project" >>
            ELSE << "Error reading plan description: ", exc >>
      [] branch = "get_plan_results_summary" ->
            << "Error getting plan results summary: ", exc >>
      [] branch = "get_compute_messages" ->
            << "Error getting compute messages: ", exc >>
      [] branch = "get_hdf_structure" ->
            << "Error getting HDF structure: ", exc >>
      [] branch = "get_projection_info" ->
            << "Error getting projection info: ", exc >>

\* mutant: the get_projection_info branch is missing from the chain
Dispatch_NoProjection(n) ==
    IF n \in { "hecras_project_summary", "read_plan_description",
               "get_plan_results_summary", "get_compute_messages",
               "get_hdf_structure" }
    THEN n ELSE "else"

\* the if / elif chain on name (lines 406, 504, 553, 666, 741, 814, 848)
Dispatch(n) ==
    IF n = "hecras_project_summary" THEN "hecras_project_summary"
    ELSE IF n = "read_plan_description" THEN "read_plan_description"
    ELSE IF n = "get_plan_results_summary" THEN "get_plan_results_summary"
    ELSE IF n = "get_compute_messages" THEN "get_compute_messages"
    ELSE IF n = "get_hdf_structure" THEN "get_hdf_structure"
    ELSE IF n = "get_projection_info" THEN "get_projection_info"
    ELSE "else"

BranchBody(branch, args, e) ==
    CASE branch = "hecras_project_summary"   -> ProjectSummaryBody(args, e)
      [] branch = "read_plan_description"    -> PlanDescriptionBody(args, e)
      [] branch = "get_plan_results_summary" -> ResultsSummaryBody(args, e)
      [] branch = "get_compute_messages"     -> ComputeMessagesBody(args, e)
      [] branch = "get_hdf_structure"        -> HdfStructureBody(args, e)
      [] branch = "get_projection_info"      -> ProjectionBody(args, e)

TextContent(text) == [type |-> "text", text |-> text]

\* server.py: handle_call_tool(name, arguments)
handle_call_tool(n, args, e) ==
    LET branch == Dispatch(n)
    IN  IF branch = "else"
        THEN [raised |-> "none", branch |-> branch, calls |-> << >>,
              items |-> << TextContent(<< "Error: Unknown tool: ", n >>) >>]
        ELSE LET b == BranchBody(branch, args, e)
             IN  IF b.exc = "none"
                 THEN [raised |-> "none", branch |-> branch, calls |-> b.calls,
                       items |-> << TextContent(b.text) >>]
                 ELSE IF ExceptText(branch, b.exc) # << >>
                 THEN [raised |-> "none", branch |-> branch, calls |-> b.calls,
                       items |-> << TextContent(ExceptText(branch, b.exc)) >>]
                 ELSE [raised |-> b.exc, branch |-> branch, calls |-> b.calls,
                       items |-> << >>]

(***************************************************************************)
(* Specification of handle_call_tool: one request                          *)
(***************************************************************************)
\* the listed names, and the names the repository's tests call
RequestNames ==
    ListedTools \cup { "query_hecras_project", "get_hecras_plans",
                       "get_infiltration_data", "" }

ArgumentKinds == { "absent", "str", "wrong_type" }

RequestArguments ==
    [ mapping : {TRUE}, project_path : ArgumentKinds, plan_number : ArgumentKinds,
      hdf_path : ArgumentKinds, paths_only : BOOLEAN ]
    \cup
    [ mapping : {FALSE}, project_path : {"absent"}, plan_number : {"absent"},
      hdf_path : {"absent"}, paths_only : {FALSE} ]

LibraryOutcomes == { "ok", "ValueError", "OSError" }

\* the search for the plan's results file: found, not found, or the plan
\* table lacks the column the search reads
PlanLookups == { "found", "missing", "KeyError" }

Environments ==
    [ path_ok : BOOLEAN, init : LibraryOutcomes, query : LibraryOutcomes,
      plan_hdf : PlanLookups, group_ok : BOOLEAN ]

InitTool ==
    /\ name \in RequestNames
    /\ arguments \in RequestArguments
    /\ env \in Environments
    /\ calls = << >>
    /\ response = << >>
    /\ server_state = StartState
    /\ history = << >>
    /\ DetailIdle
    /\ FmtIdle /\ GcmIdle

\* what the request leaves behind: sys.stdout is put back by the finally
\* clause (line 793), the buffer keeps what was printed into it, and
\* init_ras_project has set the library's project object
StateAfter(st, made, e) ==
    [stdout   |-> st.stdout,
     captured |-> IF Contains(made, "HdfBase.get_dataset_info")
                  THEN (IF e.query = "ok"
                        THEN StructureOutput(StringIO(st.captured))
                        ELSE StringIO(st.captured))
                  ELSE st.captured,
     ras      |-> IF Contains(made, "init_ras_project") /\ e.init = "ok"
                  THEN "initialised" ELSE st.ras]

CallTool ==
    /\ response = << >>
    /\ LET r == handle_call_tool(name, arguments, env)
       IN  /\ response' = [raised |-> r.raised, branch |-> r.branch, items |-> r.items]
           /\ calls' = r.calls
           /\ server_state' = StateAfter(server_state, r.calls, env)
           /\ history' = Append(history, [name |-> name, arguments |-> arguments,
                                         raised |-> r.raised, items |-> r.items])
    /\ UNCHANGED << name, arguments, env, detailVars, fmtVars, gcmVars >>

NextTool == CallTool

SpecTool == InitTool /\ [][NextTool]_vars

(***************************************************************************)
(* Specification of a session: requests one after another, served by one   *)
(* process on an unchanged file system and configuration                   *)
(***************************************************************************)
\* number of requests of a session
MaxRequests == 3

SessionNames ==
    { "get_hdf_structure", "hecras_project_summary", "get_compute_messages",
      "query_hecras_project" }

SessionArguments ==
    { a \in RequestArguments :
        /\ a.mapping /\ a.project_path = "str" /\ a.hdf_path = "str"
        /\ a.plan_number \in {"str", "absent"}
        /\ a.paths_only => a.plan_number = "str" }

SessionEnvironments ==
    { e \in Environments :
        /\ e.init = "ok" /\ e.plan_hdf = "found" /\ e.group_ok
        /\ e.query \in {"ok", "OSError"} }

InitSession ==
    /\ name \in SessionNames
    /\ arguments \in SessionArguments
    /\ env \in SessionEnvironments
    /\ calls = << >>
    /\ response = << >>
    /\ server_state = StartState
    /\ history = << >>
    /\ DetailIdle
    /\ FmtIdle /\ GcmIdle

\* the next request arrives; the file system and the configuration stay as
\* they are
NextRequest ==
    /\ response # << >>
    /\ Len(history) < MaxRequests
    /\ name' \in SessionNames
    /\ arguments' \in SessionArguments
    /\ response' = << >>
    /\ calls' = << >>
    /\ UNCHANGED << env, server_state, history, detailVars, fmtVars, gcmVars >>

NextSession == CallTool \/ NextRequest

SpecSession == InitSession /\ [][NextSession]_vars

(***************************************************************************)
(* Claims about the formatter                                              *)
(***************************************************************************)
\* the category the specification gives a trimmed, non-blank line
ClaimCategory(line) ==
    CASE Contains(line, "TASK") /\ Contains(line, "TAB")  -> "task"
      [] Contains(line, "SPEED") /\ Contains(line, "TAB")
         /\ ~(Contains(line, "TASK") /\ Contains(line, "TAB")) -> "speed"
      [] OTHER -> "general"

\* the trimmed lines of the raw log
InputLines ==
    LET lines == SplitLines(messages_text)
    IN  [i \in 1..Len(lines) |-> Strip(lines[i])]

\* C1: after the server's formatter has run, every non-blank line of the raw
\* log has been put into the category its content gives it: task record if it
\* holds the task phrase and a tab, else speed record if it holds the speed
\* phrase and a tab, else general message.
C1_EveryLineClassifiedByPriority ==
    impl = "local" =>
        \A i \in 1..Len(InputLines) :
            InputLines[i] # << >> => cls[i] = ClaimCategory(InputLines[i])

\* an output line carries an input line when it shows every character of it
\* other than white space and the category phrase (which a table row drops)
Carries(out, line) ==
    \A k \in 1..Len(line) :
        line[k] \notin Whitespace \cup {"TASK", "SPEED"} => Contains(out, line[k])

\* C2: the server's formatter discards no non-blank line: each one is carried
\* by as many lines of the output as it occurs in the raw log, also when it
\* comes after a task or speed record.
C2_NoLineDiscarded ==
    impl = "local" =>
        \A i \in 1..Len(InputLines) :
            InputLines[i] # << >> =>
                Cardinality({ j \in 1..Len(formatted_parts) :
                                Carries(formatted_parts[j], InputLines[i]) })
                  >= Cardinality({ k \in 1..Len(InputLines) :
                                     InputLines[k] = InputLines[i] })

HasHeading(h) == \E j \in 1..Len(formatted_parts) : formatted_parts[j] = << h >>

HeadingAt(h) == CHOOSE j \in 1..Len(formatted_parts) : formatted_parts[j] = << h >>

HasCategory(c) ==
    \E i \in 1..Len(InputLines) :
        InputLines[i] # << >> /\ ClaimCategory(InputLines[i]) = c

\* C3: the output of the server's formatter starts with the header block and
\* has the heading of a section exactly when a line of the raw log belongs to
\* that category, the headings standing in the order general, tasks, speed.
C3_SectionsIffCategoryPresent ==
    impl = "local" =>
        /\ SubSeq(formatted_parts, 1, 3) = HeaderBlock
        /\ HasHeading("General Messages:") <=> HasCategory("general")
        /\ HasHeading("Computation Tasks:") <=> HasCategory("task")
        /\ HasHeading("Computation Speed:") <=> HasCategory("speed")
        /\ (HasHeading("General Messages:") /\ HasHeading("Computation Tasks:"))
              => HeadingAt("General Messages:") < HeadingAt("Computation Tasks:")
        /\ (HasHeading("Computation Tasks:") /\ HasHeading("Computation Speed:"))
              => HeadingAt("Computation Tasks:") < HeadingAt("Computation Speed:")
        /\ (HasHeading("General Messages:") /\ HasHeading("Computation Speed:"))
              => HeadingAt("General Messages:") < HeadingAt("Computation Speed:")

\* the rows of the section with heading h: the lines after the heading and
\* the skip - 1 lines under it, up to the next empty line or the end
SectionRows(h, skip) ==
    IF ~HasHeading(h) THEN << >>
    ELSE LET at    == HeadingAt(h)
             first == at + skip
             stops == { j \in first..Len(formatted_parts) : formatted_parts[j] = << >> }
             last  == IF stops = {} THEN Len(formatted_parts)
                      ELSE (CHOOSE j \in stops : \A k \in stops : j <= k) - 1
         IN  SubSeq(formatted_parts, first, last)

GeneralRows == SectionRows("General Messages:", 2)
TaskRows    == SectionRows("Computation Tasks:", 4)
SpeedRows   == SectionRows("Computation Speed:", 4)

\* "Plan Name" + 31 spaces + ": Test"
ScenarioGeneralLine ==
    << "P", "l", "a", "n", "SP", "N", "a", "m", "e" >> \o Repeat("SP", 31)
        \o << "COLON", "SP", "T", "e", "s", "t" >>

\* "Geometry   00:01:23"
ScenarioTaskRow ==
    << "G", "e", "o", "m", "e", "t", "r", "y", "SP", "SP", "SP",
       "0", "0", "COLON", "0", "1", "COLON", "2", "3" >>

\* "Unsteady   2.5"
ScenarioSpeedRow ==
    << "U", "n", "s", "t", "e", "a", "d", "y", "SP", "SP", "SP", "2", ".", "5" >>

\* C11: for the scenario log and the label plan.hdf the server's formatter
\* gives a header line holding "plan.hdf", a General Messages section holding
\* exactly "Plan Name" + 31 spaces + ": Test", a Computation Tasks section
\* with the row "Geometry   00:01:23" and a Computation Speed section with the
\* row "Unsteady   2.5".
C11_ScenarioOutput ==
    (impl = "local" /\ messages_text = ScenarioLog) =>
        /\ Contains(formatted_parts[1], "plan.hdf")
        /\ GeneralRows = << ScenarioGeneralLine >>
        /\ HasHeading("Computation Tasks:")
        /\ \E k \in 1..Len(TaskRows) : RStrip(TaskRows[k]) = ScenarioTaskRow
        /\ HasHeading("Computation Speed:")
        /\ \E k \in 1..Len(SpeedRows) : RStrip(SpeedRows[k]) = ScenarioSpeedRow

\* the general messages the formatter that ran has collected, in input order
Collected ==
    LET lines == InputLines
        RECURSIVE Pick(_)
        Pick(i) == IF i > Len(lines) \/ i > Len(cls) THEN << >>
                   ELSE (IF cls[i] = "general" THEN << lines[i] >> ELSE << >>)
                            \o Pick(i + 1)
    IN  Pick(1)

\* index of the first colon of a line holding one
FirstColon(line) ==
    CHOOSE c \in 1..Len(line) :
        line[c] = "COLON" /\ \A d \in 1..(c - 1) : line[d] # "COLON"

IsSplit(msg) == Contains(msg, "COLON") /\ msg[1] # "HTTP"

\* text before and after the first colon, white space trimmed
LabelOf(line) == LET c == FirstColon(line) IN Strip(SubSeq(line, 1, c - 1))
ValueOf(line) == LET c == FirstColon(line) IN Strip(SubSeq(line, c + 1, Len(line)))

\* C13: each collected general message has its own row in the General
\* Messages section; a message holding a colon and not beginning with http
\* is shown as label, colon, value, split at its first colon only (a later
\* colon stays in the value); any other message is shown verbatim.
C13_SplitAtFirstColonOnly ==
    impl \in {"local", "reference"} =>
        LET msgs == Collected
            rows == GeneralRows
        IN  /\ Len(rows) = Len(msgs)
            /\ \A k \in 1..Len(msgs) :
                  IF IsSplit(msgs[k])
                  THEN /\ Contains(rows[k], "COLON")
                       /\ LabelOf(rows[k]) = LabelOf(msgs[k])
                       /\ ValueOf(rows[k]) = ValueOf(msgs[k])
                  ELSE rows[k] = msgs[k]

\* C13 witness: the server's formatter has split a message with two colons,
\* the second one standing in the value, and shown a url verbatim
C13_Witness ==
    /\ impl = "local"
    /\ \E k \in 1..Len(Collected) :
          /\ IsSplit(Collected[k])
          /\ Contains(ValueOf(Collected[k]), "COLON")
          /\ Contains(ValueOf(GeneralRows[k]), "COLON")
    /\ \E k \in 1..Len(Collected) :
          Collected[k][1] = "HTTP" /\ GeneralRows[k] = Collected[k]

\* the fixed column width of the label of a split general message
LabelWidth == 40

\* the characters of a row before its first colon: the label field and the
\* space of the " : " separator
LabelField(row) == LET c == FirstColon(row) IN SubSeq(row, 1, c - 1)

\* C14 as stated: in every split general message the label field is exactly
\* 40 characters wide, a longer label being cut, so that the colon stands at
\* the same column in every split row.
C14_LabelExactlyFixedWidth ==
    impl = "local" =>
        LET msgs == Collected
            rows == GeneralRows
        IN  \A k \in 1..Len(msgs) :
              IsSplit(msgs[k]) => StrLen(LabelField(rows[k])) = LabelWidth + 1

\* C14 amended: a label shorter than 40 characters is padded with spaces on
\* its right to 40, a longer label is kept whole; the colon stands at the same
\* column in every split row whose label has at most 40 characters.
C14_LabelPaddedNeverCut ==
    impl = "local" =>
        LET msgs == Collected
            rows == GeneralRows
        IN  \A k \in 1..Len(msgs) :
              IsSplit(msgs[k]) =>
                LET label == LabelOf(msgs[k])
                    field == LabelField(rows[k])
                IN  /\ SubSeq(field, 1, Len(label)) = label
                    /\ \A j \in (Len(label) + 1)..Len(field) : field[j] = "SP"
                    /\ StrLen(field) = Max(LabelWidth, StrLen(label)) + 1

\* C14 witness: a split row whose label is longer than 40 characters and
\* shown whole, and one whose label is shorter and padded
C14_Witness ==
    /\ impl = "local"
    /\ LET msgs == Collected
           rows == GeneralRows
       IN  /\ \E k \in 1..Len(msgs) :
                 /\ IsSplit(msgs[k])
                 /\ StrLen(LabelOf(msgs[k])) > LabelWidth
                 /\ LabelOf(rows[k]) = LabelOf(msgs[k])
           /\ \E k \in 1..Len(msgs) :
                 /\ IsSplit(msgs[k])
                 /\ StrLen(LabelOf(msgs[k])) < LabelWidth
                 /\ StrLen(LabelField(rows[k])) = LabelWidth + 1

\* the trimmed lines of the raw log that belong to category c, in input order
LinesOf(c) ==
    SelectSeq(InputLines, LAMBDA l : l # << >> /\ ClaimCategory(l) = c)

FirstTab(line) ==
    CHOOSE t \in 1..Len(line) :
        line[t] = "TAB" /\ \A d \in 1..(t - 1) : line[d] # "TAB"

\* label and value of a record as the specification defines them: the text
\* before the first tab without the category phrase, and all the text after
\* the first tab, both trimmed
RecordLabel(line, phrase) ==
    LET t == FirstTab(line) IN Strip(Remove(SubSeq(line, 1, t - 1), phrase))
RecordValue(line) ==
    LET t == FirstTab(line) IN Strip(SubSeq(line, t + 1, Len(line)))

\* a table row showing a label and a value in two columns
ShowsRecord(row, label, value) ==
    \E n \in 1..Len(row) : RStrip(row) = label \o Repeat("SP", n) \o value

\* the table of a category: heading, rule, header row, rule, then one row
\* for each record of the category, in input order
TableShows(heading, column, c, phrase) ==
    LET recs == LinesOf(c)
        rows == SectionRows(heading, 4)
    IN  recs # << >> =>
          /\ HasHeading(heading)
          /\ LET at == HeadingAt(heading)
             IN  /\ at + 3 <= Len(formatted_parts)
                 /\ formatted_parts[at + 1] = << "-x60" >>
                 /\ formatted_parts[at + 2] = << column >>
                 /\ formatted_parts[at + 3] = << "-x60" >>
          /\ Len(rows) = Len(recs)
          /\ \A k \in 1..Len(recs) :
                ShowsRecord(rows[k], RecordLabel(recs[k], phrase),
                            RecordValue(recs[k]))

\* C15: each task or speed record is shown as a row of its table, under a
\* header row and a separator rule; the row's label is the text before the
\* first tab without the category phrase, trimmed, and its value is all the
\* text after the first tab, further tab-separated fields included.
C15_RecordSplitAtFirstTabOnly ==
    impl \in {"local", "reference"} =>
        /\ TableShows("Computation Tasks:", "Task|Time", "task", "TASK")
        /\ TableShows("Computation Speed:", "Task|Simulation/Runtime",
                      "speed", "SPEED")

\* a table row shows a record when it holds the record's first field after
\* the tab
RowOfRecord(row, line) ==
    LET field == Strip(Split(line, << "TAB" >>)[2])
    IN  \A j \in 1..Len(field) :
            field[j] \notin Whitespace => Contains(row, field[j])

\* rows and lines correspond one to one, in the same order
SameOrder(rows, lines, Shown(_, _)) ==
    /\ Len(rows) = Len(lines)
    /\ \A k \in 1..Len(lines) : Shown(rows[k], lines[k])

\* C16: in the output of the server's formatter the lines of each category
\* stand in their input order, whatever the interleaving of the categories in
\* the raw log, and the sections stand in the order general, tasks, speed.
C16_OrderWithinCategoryPreserved ==
    impl = "local" =>
        /\ SameOrder(GeneralRows, LinesOf("general"), Carries)
        /\ SameOrder(TaskRows, LinesOf("task"), RowOfRecord)
        /\ SameOrder(SpeedRows, LinesOf("speed"), RowOfRecord)
        /\ (HasHeading("General Messages:") /\ HasHeading("Computation Tasks:"))
              => HeadingAt("General Messages:") < HeadingAt("Computation Tasks:")
        /\ (HasHeading("Computation Tasks:") /\ HasHeading("Computation Speed:"))
              => HeadingAt("Computation Tasks:") < HeadingAt("Computation Speed:")

IsRecordLike(line) ==
    (Contains(line, "TASK") \/ Contains(line, "SPEED")) /\ Contains(line, "TAB")

\* the classification loop of the server's formatter run again on the text
\* of the General Messages section of the output
Reclassified ==
    LocalLoop(SplitLines(Join(GeneralRows, << "LF" >>)), 1, << >>, << >>)

\* C17: classifying the lines of the General Messages section of an output
\* again finds no task and no speed record among them (every line that is
\* not blank is a general message again): no row of the section holds both a
\* category phrase and a tab.
C17_GeneralSectionStaysGeneral ==
    impl \in {"local", "reference"} =>
        LET rows == GeneralRows
            again == Reclassified
        IN  /\ \A k \in 1..Len(rows) : ~IsRecordLike(rows[k])
            /\ \A i \in 1..Len(again.cls) : again.cls[i] \in {"general", "blank"}
            /\ Len(again.general) >= Len(rows)

\* C17 witness: a General Messages section of the server's formatter holding
\* a split row with a category phrase, classified as general messages again
C17_Witness ==
    /\ impl = "local"
    /\ LET rows == GeneralRows
       IN  /\ \E k \in 1..Len(rows) :
                 Contains(rows[k], "TASK") /\ Contains(rows[k], "COLON")
           /\ Len(Reclassified.general) = Len(rows)

\* number of characters of a token of the output
Chars(tok) ==
    CASE tok = "Compute Messages from: " -> 23
      [] tok = "plan.hdf" -> 8
      [] tok = "=x80" -> 80
      [] tok = "-x40" -> 40
      [] tok = "-x60" -> 60
      [] tok = "General Messages:" -> 17
      [] tok \in {"Computation Tasks:", "Computation Speed:"} -> 18
      [] tok \in {"Task|Time", "Task|Simulation/Runtime"} -> 61
      [] OTHER -> Width(tok)

LineChars(line) == SumSeq([j \in 1..Len(line) |-> Chars(line[j])])

\* len('\n'.join(parts))
JoinedChars(parts) ==
    IF parts = << >> THEN 0
    ELSE SumSeq([k \in 1..Len(parts) |-> LineChars(parts[k])]) + Len(parts) - 1

\* the header block, the heading and rule of the General Messages section and
\* the newline after them: what the output holds besides the messages
FixedOverhead ==
    JoinedChars(HeaderBlock \o << << "General Messages:" >>, << "-x40" >> >>) + 1

\* the most a split row is longer than its message: the padding of an empty
\* label and the two spaces around the colon
PaddingPerSplit == LabelWidth + 2

SplitCount ==
    LET msgs == Collected
    IN  Cardinality({ k \in 1..Len(msgs) : IsSplit(msgs[k]) })

\* C18 as stated: the output is at most the fixed header and section overhead
\* longer than the raw log, the padding of the labels included.
C18_FixedOverheadOnly ==
    impl = "local" =>
        JoinedChars(formatted_parts) <= StrLen(messages_text) + FixedOverhead

\* C18 amended: the output is at most the fixed overhead, and 42 characters
\* for each general message split at a colon, longer than the raw log.
C18_OverheadPlusPadding ==
    impl = "local" =>
        JoinedChars(formatted_parts)
            <= StrLen(messages_text) + FixedOverhead + PaddingPerSplit * SplitCount

\* C18 witness: an output with split rows that is longer than the raw log by
\* more than the fixed overhead
C18_Witness ==
    /\ impl = "local"
    /\ SplitCount >= 2
    /\ JoinedChars(formatted_parts) > StrLen(messages_text) + FixedOverhead
    /\ JoinedChars(formatted_parts)
          <= StrLen(messages_text) + FixedOverhead + PaddingPerSplit * SplitCount

\* where the CR LF pairs, and where the LFs, of the raw log stand
CRLFAt == { i \in 1..(Len(messages_text) - 1) :
              messages_text[i] = "CR" /\ messages_text[i + 1] = "LF" }
LFAt   == { i \in 1..Len(messages_text) : messages_text[i] = "LF" }

\* the lines of the raw log by the one convention chosen for the whole text,
\* each trimmed: pieces between CR LF pairs if there is one, else between LFs
ConventionLines ==
    LET ends  == IF CRLFAt # {} THEN CRLFAt ELSE LFAt
        width == IF CRLFAt # {} THEN 2 ELSE 1
        RECURSIVE From(_)
        From(a) ==
            LET later == { e \in ends : e >= a }
            IN  IF later = {}
                THEN << Strip(SubSeq(messages_text, a, Len(messages_text))) >>
                ELSE LET e == CHOOSE x \in later : \A y \in later : x <= y
                     IN  << Strip(SubSeq(messages_text, a, e - 1)) >> \o From(e + width)
    IN  From(1)

\* C19: the formatter takes as lines the pieces of the raw log between CR LF
\* pairs when the text holds a CR LF anywhere (a lone LF then ends no line),
\* and the pieces between LFs otherwise: each line it visits is such a piece.
C19_OneTerminatorConvention ==
    impl \in {"local", "reference"} =>
        LET lines == ConventionLines
        IN  /\ Len(cls) = Len(lines)
            /\ \A i \in 1..Len(lines) :
                  cls[i] # "unvisited" =>
                    cls[i] = IF lines[i] = << >> THEN "blank"
                             ELSE ClaimCategory(lines[i])
            /\ \A i \in 1..Len(lines) :
                  cls[i] = "general" =>
                    \E k \in 1..Len(formatted_parts) :
                        Carries(formatted_parts[k], lines[i])
                        /\ (Contains(lines[i], "LF") => Contains(formatted_parts[k], "LF"))

\* C19 witness: a CR LF log with a lone LF inside a message, which the
\* server's formatter kept as one general message
C19_Witness ==
    /\ impl = "local"
    /\ CRLFAt # {}
    /\ Cardinality(LFAt) > Cardinality(CRLFAt)
    /\ \E k \in 1..Len(GeneralRows) : Contains(GeneralRows[k], "LF")

(***************************************************************************)
(* Claims about get_compute_messages_local                                 *)
(***************************************************************************)
\* the formatted text of the request, before the size bound
Formatted == FormattedLens(name_len, raw_msgs)

Returned == gpc = "returned"

Truncated == Returned /\ result.kind = "report" /\ result.truncated

\* s[-k:] of a list
LastLines(s, k) == SubSeq(s, Max(1, Len(s) - k + 1), Len(s))

TheNotice == NoticeLines[3]

NoticePieces(lines) ==
    SumSeq([k \in 1..Len(lines) |->
              Cardinality({ q \in 1..Len(lines[k]) : lines[k][q].src = "notice" })])

\* C4: the returned text is never longer than the character budget.
C4_WithinBudget == Returned => result.len <= max_chars

\* the returned text is head + notice + tail: the head is the first head_len
\* characters of the formatted text, the tail its last m lines
HeadNoticeTail(m) ==
    LET out == result.lines
        at  == { k \in 1..Len(out) : out[k] = TheNotice }
    IN  /\ NoticePieces(out) = 1
        /\ Cardinality(at) = 1
        /\ LET k == CHOOSE x \in at : TRUE
           IN  /\ k >= 3 /\ k + 2 <= Len(out)
               /\ out[k - 1] = << >> /\ out[k + 1] = << >>
               /\ SubSeq(out, 1, k - 2) = PrefixLines(Formatted, result.head_len)
               /\ SubSeq(out, k + 2, Len(out)) = LastLines(WholeLines(Formatted), m)

\* C5 as stated: a truncated result holds the notice exactly once, is head +
\* notice + tail, and its final 50 lines are the final 50 lines of the
\* formatted text.
C5_Last50LinesEqual ==
    Truncated =>
        /\ HeadNoticeTail(Min(TailLineCount, Len(Formatted)))
        /\ LastLines(result.lines, TailLineCount)
             = LastLines(WholeLines(Formatted), TailLineCount)

\* C5 amended: a truncated result holds the notice exactly once, is head +
\* notice + tail, and its final m lines are the final m lines of the formatted
\* text, m being 50 or the number of lines of the formatted text if smaller.
C5_LastLinesPreserved ==
    Truncated =>
        LET m == Min(TailLineCount, Len(Formatted))
        IN  /\ HeadNoticeTail(m)
            /\ LastLines(result.lines, m) = LastLines(WholeLines(Formatted), m)

\* C5 witness: a truncated result of a formatted text of fewer than 50 lines
C5_Witness ==
    /\ Truncated
    /\ Len(Formatted) < TailLineCount
    /\ LastLines(result.lines, Len(Formatted)) = WholeLines(Formatted)

\* C6: the head kept by a truncation is a sequence of whole lines of the
\* formatted text: it is empty or ends where one of its lines ends.
C6_HeadEndsAtLineBoundary ==
    Truncated =>
        \/ result.head_len = 0
        \/ \E i \in 1..Len(Formatted) :
              result.head_len = LineStarts(Formatted)[i] + Formatted[i]

\* C7: a formatted text of at most max_chars characters is returned as it is,
\* with no notice.
C7_UnderBudgetUnmodified ==
    (Returned /\ result.kind = "report" /\ TextLen(Formatted) <= max_chars) =>
        /\ result.lines = WholeLines(Formatted)
        /\ result.len = TextLen(Formatted)
        /\ NoticePieces(result.lines) = 0
        /\ ~result.truncated

\* C7 witness: a formatted text of exactly max_chars characters, returned whole
C7_Witness ==
    /\ Returned /\ result.kind = "report"
    /\ TextLen(Formatted) = max_chars
    /\ result.lines = WholeLines(Formatted)

\* the outcomes in which the function cannot produce a report
FailureOutcomes == HdfOutcomes \ ReadableOutcomes

IsScenarioLog == Len(raw_msgs) = 60 /\ TextLen(raw_msgs) = 45000

\* input line i as a line of the formatted text (5 lines stand before the
\* messages: 3 of the header block, the heading and its rule)
FormattedMessage(i) == TextPiece(5 + i, 0, raw_msgs[i])

Answered == response # << >>

\* C9: handle_call_tool raises nothing and returns exactly one text item,
\* whatever the tool name and the arguments.
C9_CallToolTotal ==
    Answered =>
        /\ response.raised = "none"
        /\ Len(response.items) = 1
        /\ response.items[1].type = "text"
        /\ response.items[1].text # << >>

\* C9 witness: get_plan_results_summary called without plan_number (as the
\* repository's test does) answers with one error text
C9_Witness ==
    /\ Answered
    /\ name = "get_plan_results_summary"
    /\ arguments.mapping /\ arguments.project_path = "str"
    /\ arguments.plan_number = "absent"
    /\ response.raised = "none"
    /\ response.items = << TextContent(<< "Error getting plan results summary: ",
                                          "KeyError" >>) >>

UnknownToolText == << "Error: Unknown tool: ", name >>

\* C10: the answer is "Error: Unknown tool: <name>" exactly when the name is
\* not a listed tool; a listed tool runs the branch of its own name and any
\* other name runs none.
C10_UnknownIffNotListed ==
    Answered =>
        /\ (response.raised = "none" /\ response.items[1].text = UnknownToolText)
              <=> name \notin ListedTools
        /\ name \in ListedTools => response.branch = name
        /\ name \notin ListedTools => response.branch = "else"

\* C10 witness: a name the tests call but no tool has is answered with the
\* unknown-tool text
C10_Witness ==
    /\ Answered
    /\ name = "query_hecras_project"
    /\ response.items[1].text = UnknownToolText

\* C20: the answer to a request does not depend on the requests served
\* before it: two requests of a session with the same tool name and the same
\* arguments, on the unchanged file system, get the same text.
C20_SameRequestSameText ==
    \A i, j \in 1..Len(history) :
        (history[i].name = history[j].name
            /\ history[i].arguments = history[j].arguments)
        => (history[i].raised = history[j].raised
            /\ history[i].items = history[j].items)

\* C20 witness: the structure of a file asked for, another tool called, and
\* the structure asked for again with the same answer, the process having
\* kept a buffer and a project object in between
C20_Witness ==
    /\ Len(history) = 3
    /\ history[1].name = "get_hdf_structure" /\ ~history[1].arguments.paths_only
    /\ history[2].name = "hecras_project_summary"
    /\ history[3].name = history[1].name
    /\ history[3].arguments = history[1].arguments
    /\ history[3].items = history[1].items
    /\ Contains(history[1].items[1].text, "dataset info")
    /\ server_state.captured # << >> /\ server_state.ras = "initialised"

(***************************************************************************)
(* The plan tools of handle_call_tool in detail: read_plan_description,    *)
(* get_plan_results_summary, get_compute_messages                          *)
(***************************************************************************)
\* the characters str.isdigit accepts, as far as the model needs them
Digits == { "0", "1", "2" }

\* plan_number.isdigit(): at least one character and all of them digits
IsDigit(s) == s # << >> /\ \A i \in 1..Len(s) : s[i] \in Digits

\* s.zfill(w): zeros on the left up to w characters, after a leading sign
ZFill(s, w) ==
    IF StrLen(s) >= w THEN s
    ELSE IF s # << >> /\ s[1] \in { "+", "-" }
    THEN << s[1] >> \o Repeat("0", w - StrLen(s)) \o Tail(s)
    ELSE Repeat("0", w - StrLen(s)) \o s

\* mutant: every plan number of digits is padded, to three characters
PlanNumberOfResults_Wide(p) ==
    IF IsDigit(p) THEN ZFill(p, 3) ELSE p

\* lines 510-511, read_plan_description
PlanNumberOfDescription(p) ==
    IF IsDigit(p) /\ StrLen(p) = 1 THEN ZFill(p, 2) ELSE p

\* lines 559-560, get_plan_results_summary
PlanNumberOfResults(p) ==
    IF IsDigit(p) /\ StrLen(p) = 1 THEN ZFill(p, 2) ELSE p

\* lines 672-673, get_compute_messages
PlanNumberOfMessages(p) ==
    IF IsDigit(p) /\ StrLen(p) = 1 THEN ZFill(p, 2) ELSE p

\* s.endswith(suffix)
EndsWith(s, suffix) ==
    /\ Len(s) >= Len(suffix)
    /\ SubSeq(s, Len(s) - Len(suffix) + 1, Len(s)) = suffix

\* a path: the string given (seen from the working directory), or a name in
\* the project folder; NoPath is None
AsGiven(p)    == [at |-> "given", name |-> p]
InProject(n)  == [at |-> "project", name |-> n]
NoPath        == [at |-> "none", name |-> << >>]

Range(f) == { f[i] : i \in DOMAIN f }

\* Path.exists()
PathExists(path, w) ==
    CASE path.at = "given"   -> path.name \in w.outside
      [] path.at = "project" -> path.name \in Range(w.listing)
      [] OTHER               -> FALSE

\* fnmatch of a file name against a pattern whose only wildcard is '*'
RECURSIVE GlobMatch(_, _)
GlobMatch(pattern, n) ==
    IF pattern = << >> THEN n = << >>
    ELSE IF Head(pattern) = "*"
    THEN \E k \in 0..Len(n) : GlobMatch(Tail(pattern), SubSeq(n, k + 1, Len(n)))
    ELSE n # << >> /\ Head(n) = Head(pattern) /\ GlobMatch(Tail(pattern), Tail(n))

\* list(project_path.glob(pattern.name)): the matching names of the folder,
\* in the order the folder lists them
Glob(pattern, w) == SelectSeq(w.listing, LAMBDA n : GlobMatch(pattern, n))

\* f"{project_name}.p{plan_number}.hdf" and f"*.p{plan_number}.hdf"
ProjectName == << "P" >>
PotentialPaths(pn) ==
    << ProjectName \o << ".p" >> \o pn \o << ".hdf" >>,
       << "*", ".p" >> \o pn \o << ".hdf" >> >>

Found(path)   == [exc |-> "none", path |-> path]
Failed(exc)   == [exc |-> exc, path |-> NoPath]

(***************************************************************************)
(* Texts as runs of characters: a run is n characters that are all spaces, *)
(* all line feeds, or all neither ("x"); its tag names the part of the     *)
(* response the characters belong to                                       *)
(***************************************************************************)
Run(ch, n, tag) == [ch |-> ch, n |-> n, tag |-> tag]

\* len(text)
RunsLen(t) == SumSeq([i \in 1..Len(t) |-> t[i].n])

\* text[:k] for k >= 0
Prefix(t, k) ==
    LET before(i) == RunsLen(SubSeq(t, 1, i - 1))
        whole     == { i \in 1..Len(t) : before(i) + t[i].n <= k }
        m         == Cardinality(whole)
    IN  IF m = Len(t) THEN t
        ELSE IF k > before(m + 1)
        THEN Append(SubSeq(t, 1, m), [t[m + 1] EXCEPT !.n = k - before(m + 1)])
        ELSE SubSeq(t, 1, m)

\* text.rfind(' '): index of the last space, -1 when there is none
RFindSpace(t) ==
    LET spaces == { i \in 1..Len(t) : t[i].ch = "SP" }
    IN  IF spaces = {} THEN -1
        ELSE LET last == CHOOSE i \in spaces : \A j \in spaces : j <= i
             IN  RunsLen(SubSeq(t, 1, last)) - 1

\* words of the given lengths with one space between them
Words(lengths, tag) ==
    SelectSeq([i \in 1..(2 * Len(lengths) - 1) |->
                  IF i % 2 = 1 THEN Run("x", lengths[(i + 1) \div 2], tag)
                  ELSE Run("SP", 1, tag)],
              LAMBDA r : r.n > 0)

\* '\n'.join(parts)
JoinParts(parts) ==
    Flatten([i \in 1..Len(parts) |->
                IF i = 1 THEN parts[i]
                ELSE << Run("LF", 1, << "join" >>) >> \o parts[i]])

\* "\n\n[OUTPUT TRUNCATED: Response exceeded 10,000 tokens. Please use a more
\* specific query for complete results.]"
TruncationNotice ==
    << Run("LF", 2, << "notice" >>) >>
    \o Words(<< 7, 10, 8, 8, 6, 7, 6, 3, 1, 4, 8, 5, 3, 8, 9 >>, << "notice" >>)
TruncationNoticeLen == RunsLen(TruncationNotice)

\* mutant: the text is cut at the last space wherever it lies
truncate_output_AnySpace(text, max_tokens) ==
    LET limit == max_tokens * 4
    IN  IF RunsLen(text) <= limit THEN text
        ELSE LET truncated_text == Prefix(text, limit)
                 last_space     == RFindSpace(truncated_text)
             IN  (IF last_space > 0
                  THEN Prefix(truncated_text, last_space)
                  ELSE truncated_text) \o TruncationNotice

\* server.py: truncate_output(text, max_tokens); limit is max_chars, and
\* last_space > max_chars * 0.9 is compared in whole numbers
truncate_output(text, max_tokens) ==
    LET limit == max_tokens * 4
    IN  IF RunsLen(text) <= limit THEN text
        ELSE LET truncated_text == Prefix(text, limit)
                 last_space     == RFindSpace(truncated_text)
             IN  (IF 10 * last_space > 9 * limit
                  THEN Prefix(truncated_text, last_space)
                  ELSE truncated_text) \o TruncationNotice

\* the default of max_tokens
DefaultMaxTokens == 10000

(***************************************************************************)
(* Tables: filter_dataframe_columns and dataframe_to_text                  *)
(***************************************************************************)
\* a table is None or a frame with columns (labels) and rows, a row being
\* the sequence of its cells, a cell [v |-> value, chars |-> width]
NoneFrame == [kind |-> "None"]
Frame(columns, rows) == [kind |-> "frame", columns |-> columns, rows |-> rows]
IsNone(df) == df.kind = "None"

\* df.empty: no rows or no columns
IsEmpty(df) == df.columns = << >> \/ df.rows = << >>

\* omit_columns (lines 191-214), the labels the model uses of each set
OmitColumns(df_type) ==
    CASE df_type = "plan_df"       -> { "Geom File", "Flow File", "full_path", "Geom Path" }
      [] df_type = "geom_df"       -> { "full_path", "hdf_path" }
      [] df_type = "flow_df"       -> { "full_path", "Number of Profiles", "River Stations" }
      [] df_type = "unsteady_df"   -> { "full_path", "Initial Conditions", "Flow Multiplier" }
      [] df_type = "boundaries_df" -> { "full_path", "hydrograph_data", "geometry_number" }
      [] OTHER                     -> {}

\* df.drop(columns=labels)
Drop(df, labels) ==
    LET keep == { i \in 1..Len(df.columns) : df.columns[i] \notin labels }
        pick(sq) == [k \in 1..Cardinality(keep) |->
                        sq[CHOOSE i \in keep :
                              Cardinality({ j \in keep : j < i }) = k - 1]]
    IN  Frame(pick(df.columns), [r \in 1..Len(df.rows) |-> pick(df.rows[r])])

\* mutant: the omit set of plan_df is used for every table
filter_dataframe_columns_PlanSet(df, df_type, showmore) ==
    IF IsNone(df) THEN << df, 0 >>
    ELSE IF IsEmpty(df) \/ showmore THEN << df, 0 >>
    ELSE LET existing == { c \in OmitColumns("plan_df") : c \in Range(df.columns) }
         IN  IF existing # {} THEN << Drop(df, existing), Cardinality(existing) >>
             ELSE << df, 0 >>

\* server.py: filter_dataframe_columns(df, df_type, showmore)
filter_dataframe_columns(df, df_type, showmore) ==
    IF IsNone(df) THEN << df, 0 >>
    ELSE IF IsEmpty(df) \/ showmore THEN << df, 0 >>
    ELSE LET columns_to_drop == OmitColumns(df_type)
             existing_columns_to_drop ==
                 { col \in columns_to_drop : col \in Range(df.columns) }
         IN  IF existing_columns_to_drop # {}
             THEN << Drop(df, existing_columns_to_drop),
                     Cardinality(existing_columns_to_drop) >>
             ELSE << df, 0 >>

\* df.to_string(): a header line and a line for each row; every column is
\* as wide as its widest cell, its cells are set to the right, and two spaces
\* stand between columns (pandas' layout; the tables of the model have fewer
\* than max_rows rows, fewer than ten, and labels of LabelChars characters)
LabelChars == 9
ColumnChars(df, c) ==
    LET cells == { df.rows[r][c].chars : r \in 1..Len(df.rows) } \cup { LabelChars }
    IN  CHOOSE w \in cells : \A v \in cells : v <= w

to_string(df, tag) ==
    LET field(c, chars) == << Run("SP", 2 + ColumnChars(df, c) - chars, tag),
                              Run("x", chars, tag) >>
        header == << Run("SP", 1, tag) >>
                  \o Flatten([c \in 1..Len(df.columns) |-> field(c, LabelChars)])
        row(r) == << Run("LF", 1, tag), Run("x", 1, tag) >>
                  \o Flatten([c \in 1..Len(df.columns) |->
                                 field(c, df.rows[r][c].chars)])
    IN  header \o Flatten([r \in 1..Len(df.rows) |-> row(r)])

\* a section name: the lengths of its words and the name itself
SectionName(lengths, n) == [words |-> lengths, name |-> n]

\* number of decimal digits of a count below 100
DigitsLen(n) == IF n < 10 THEN 1 ELSE 2

\* server.py: dataframe_to_text(df, name, df_type, showmore): title is the
\* name, a df_type of
\* "" is None
dataframe_to_text(df, title, df_type, showmore) ==
    LET colon == [title.words EXCEPT ![Len(title.words)] = @ + 1]
    IN  IF IsNone(df) \/ IsEmpty(df)
        THEN << Run("LF", 1, << title.name, "no data" >>) >>
             \o Words(colon \o << 2, 4, 9 >>, << title.name, "no data" >>)
             \o << Run("LF", 1, << title.name, "no data" >>) >>
        ELSE LET filtered == IF df_type # "" /\ ~showmore
                             THEN filter_dataframe_columns(df, df_type, showmore)
                             ELSE << df, 0 >>
                 display_df    == filtered[1]
                 omitted_count == filtered[2]
             IN  << Run("LF", 1, << title.name, "table" >>) >>
                 \o Words(colon, << title.name, "table" >>)
                 \o (IF omitted_count > 0
                     THEN << Run("SP", 1, << title.name, "omitted" >>) >>
                          \o Words(<< 1 + DigitsLen(omitted_count), 7, 7, 1, 3, 13, 2, 3, 4 >>,
                                   << title.name, "omitted" >>)
                     ELSE << >>)
                 \o << Run("LF", 1, << title.name, "table" >>) >>
                 \o to_string(display_df, << title.name, "table" >>)
                 \o << Run("LF", 1, << title.name, "table" >>) >>

(***************************************************************************)
(* The search for the results file of a plan                               *)
(***************************************************************************)
\* ras.plan_df[ras.plan_df['plan_number'] == plan_number]
PlanRows(plan_df, pn) == SelectSeq(plan_df.rows, LAMBDA r : r.plan_number = pn)

\* mutant: the search of get_compute_messages leaves out the glob pattern
PlanHdfOfMessages_NoGlob(pn, w) ==
    IF EndsWith(pn, << ".hdf" >>) /\ PathExists(AsGiven(pn), w)
    THEN Found(AsGiven(pn))
    ELSE IF ~IsNone(w.plan_df) /\ ~w.plan_df.keyed THEN Failed("KeyError")
    ELSE LET plan_row == IF IsNone(w.plan_df) THEN << >>
                         ELSE PlanRows(w.plan_df, pn)
         IN  IF plan_row # << >> /\ w.plan_df.has_path
                /\ plan_row[1].HDF_Results_Path # << >>
             THEN Found(InProject(plan_row[1].HDF_Results_Path))
             ELSE IF PathExists(InProject(PotentialPaths(pn)[1]), w)
                  THEN Found(InProject(PotentialPaths(pn)[1]))
                  ELSE Found(NoPath)

\* one turn of the loop over potential_paths: the path the pattern gives,
\* NoPath when it gives none
TryPattern(pattern, w) ==
    IF Contains(pattern, "*")
    THEN LET matches == Glob(pattern, w)
         IN  IF matches # << >> THEN InProject(matches[1]) ELSE NoPath
    ELSE IF PathExists(InProject(pattern), w) THEN InProject(pattern) ELSE NoPath

\* lines 572-606, get_plan_results_summary: plan_hdf_path, or the exception
\* of the table lookup
PlanHdfOfResults(pn, w) ==
    IF EndsWith(pn, << ".hdf" >>) /\ PathExists(AsGiven(pn), w)
    THEN Found(AsGiven(pn))
    ELSE IF ~IsNone(w.plan_df) /\ ~w.plan_df.keyed THEN Failed("KeyError")
    ELSE LET plan_row == IF IsNone(w.plan_df) THEN << >>
                         ELSE PlanRows(w.plan_df, pn)
         IN  IF plan_row # << >> /\ w.plan_df.has_path
                /\ plan_row[1].HDF_Results_Path # << >>
             THEN Found(InProject(plan_row[1].HDF_Results_Path))
             ELSE LET potential_paths == PotentialPaths(pn)
                      first  == TryPattern(potential_paths[1], w)
                      second == TryPattern(potential_paths[2], w)
                  IN  IF first # NoPath THEN Found(first) ELSE Found(second)

\* lines 685-718, get_compute_messages: the same search, written again
PlanHdfOfMessages(pn, w) ==
    IF EndsWith(pn, << ".hdf" >>) /\ PathExists(AsGiven(pn), w)
    THEN Found(AsGiven(pn))
    ELSE IF ~IsNone(w.plan_df) /\ ~w.plan_df.keyed THEN Failed("KeyError")
    ELSE LET plan_row == IF IsNone(w.plan_df) THEN << >>
                         ELSE PlanRows(w.plan_df, pn)
         IN  IF plan_row # << >> /\ w.plan_df.has_path
                /\ plan_row[1].HDF_Results_Path # << >>
             THEN Found(InProject(plan_row[1].HDF_Results_Path))
             ELSE LET potential_paths == PotentialPaths(pn)
                      first  == TryPattern(potential_paths[1], w)
                      second == TryPattern(potential_paths[2], w)
                  IN  IF first # NoPath THEN Found(first) ELSE Found(second)

\* length of str(project_path) and of the message of a library exception in
\* the texts (neither holding a space); str(KeyError('plan_number')) is the
\* name in quotes
PathChars == 20
ErrorChars == 10
ExcChars(exc) == IF exc = "KeyError" THEN 13 ELSE ErrorChars

\* number of characters of a plan number
PlanChars(pn) ==
    SumSeq([i \in 1..Len(pn) |->
               CASE pn[i] = ".hdf" -> 4 [] pn[i] = ".p" -> 2 [] OTHER -> 1])

\* what a branch did: the exception that left its try block or the parts it
\* joined, the plan number it looked up, the file it settled on, its calls
\* len(str(plan_hdf_path))
HdfPathChars(path) ==
    IF path.at = "project" THEN PathChars + 1 + PlanChars(path.name)
    ELSE PlanChars(path.name)

PlanDone(exc, parts, pn, path, made) ==
    [exc |-> exc, parts |-> parts, lookup |-> pn, hdf |-> path, calls |-> made]

FolderMissing(pn, made) ==
    PlanDone("none",
             << Words(<< 6, 3, 9, 7, 6, 4, 3, 6, PathChars >>, << "folder missing" >>) >>,
             pn, NoPath, made)

PlanMissing(pn, made) ==
    PlanDone("none",
             << Words(<< 6, 4, PlanChars(pn) + 2, 3, 5, 2, 3, 2, 7, 3, 4 >>,
                      << "plan missing" >> \o pn) >>,
             pn, NoPath, made)

(***************************************************************************)
(* The branches of the three plan tools                                    *)
(***************************************************************************)
\* try block of read_plan_description (lines 506-538)
PlanDescriptionBranch(p, w) ==
    LET pn == PlanNumberOfDescription(p)
    IN  IF ~w.exists THEN FolderMissing(pn, << "exists" >>)
        ELSE IF w.init # "ok"
        THEN PlanDone(w.init, << >>, pn, NoPath, << "exists", "init_ras_project" >>)
        ELSE IF w.description = "ValueError"
        THEN PlanDone("ValueError", << >>, pn, NoPath,
                      << "exists", "init_ras_project", "RasPlan.read_plan_description" >>)
        ELSE PlanDone("none",
                      << Words(<< 4, 11, 3, 4, PlanChars(pn) >>, << "description of" >> \o pn),
                         Words(<< 8, 1 >>, << "project" >>),
                         << Run("x", 80, << "rule" >>) >>,
                         << >>,
                         IF w.description = "text"
                         THEN Words(<< 5, 4 >>, << "description" >>)
                         ELSE Words(<< 3, 11, 6 >>, << "no description" >>),
                         << >> >>,
                      pn, NoPath,
                      << "exists", "init_ras_project", "RasPlan.read_plan_description" >>)

\* the tables the results library returns in the model
Cell(v, n) == [v |-> v, chars |-> n]
SmallFrame == Frame(<< "c1", "c2" >>, << << Cell("a", 5), Cell("b", 12) >> >>)
HugeFrame  == Frame(<< "c1" >>, << << Cell("a", 45000) >> >>)
EmptyFrame == Frame(<< >>, << >>)

ReturnedFrame(o) ==
    CASE o = "frame" -> SmallFrame
      [] o = "huge"  -> HugeFrame
      [] o = "empty" -> EmptyFrame
      [] OTHER       -> NoneFrame

\* lines 620-625: HdfResultsPlan.get_unsteady_info
UnsteadyInfoEntry(o) ==
    IF o = "raises"
    THEN << Run("LF", 1, << "UNSTEADY INFO", "error" >>) >>
         \o Words(<< 8, 4, 3, 10, ErrorChars >>, << "UNSTEADY INFO", "error" >>)
    ELSE dataframe_to_text(ReturnedFrame(o), SectionName(<< 8, 4 >>, "UNSTEADY INFO"),
                           "", FALSE)

\* mutant: an exception of get_unsteady_summary leaves no entry
UnsteadySummaryEntry_Dropped(o) ==
    IF o = "raises"
    THEN << >>
    ELSE dataframe_to_text(ReturnedFrame(o), SectionName(<< 8, 7 >>, "UNSTEADY SUMMARY"),
                           "", FALSE)

\* lines 627-632: HdfResultsPlan.get_unsteady_summary
UnsteadySummaryEntry(o) ==
    IF o = "raises"
    THEN << Run("LF", 1, << "UNSTEADY SUMMARY", "error" >>) >>
         \o Words(<< 8, 7, 3, 10, ErrorChars >>, << "UNSTEADY SUMMARY", "error" >>)
    ELSE dataframe_to_text(ReturnedFrame(o), SectionName(<< 8, 7 >>, "UNSTEADY SUMMARY"),
                           "", FALSE)

\* lines 634-642: HdfResultsPlan.get_volume_accounting
VolumeAccountingEntry(o) ==
    IF o = "raises"
    THEN << Run("LF", 1, << "VOLUME ACCOUNTING", "error" >>) >>
         \o Words(<< 6, 10, 6, ErrorChars >>, << "VOLUME ACCOUNTING", "error" >>)
    ELSE IF o = "None"
    THEN << Run("LF", 1, << "VOLUME ACCOUNTING", "not available" >>) >>
         \o Words(<< 6, 10, 3, 9 >>, << "VOLUME ACCOUNTING", "not available" >>)
    ELSE dataframe_to_text(ReturnedFrame(o), SectionName(<< 6, 10 >>, "VOLUME ACCOUNTING"),
                           "", FALSE)

\* lines 644-652: HdfResultsPlan.get_runtime_data
RuntimeDataEntry(o) ==
    IF o = "raises"
    THEN << Run("LF", 1, << "RUNTIME DATA", "error" >>) >>
         \o Words(<< 7, 4, 6, ErrorChars >>, << "RUNTIME DATA", "error" >>)
    ELSE IF o = "None"
    THEN << Run("LF", 1, << "RUNTIME DATA", "not available" >>) >>
         \o Words(<< 7, 4, 3, 9 >>, << "RUNTIME DATA", "not available" >>)
    ELSE dataframe_to_text(ReturnedFrame(o), SectionName(<< 7, 4 >>, "RUNTIME DATA"),
                           "", FALSE)

ResultsLibraryCalls ==
    << "HdfResultsPlan.get_unsteady_info", "HdfResultsPlan.get_unsteady_summary",
       "HdfResultsPlan.get_volume_accounting", "HdfResultsPlan.get_runtime_data" >>

\* try block of get_plan_results_summary (lines 555-657), before the join
PlanResultsBranch(p, w) ==
    LET pn == PlanNumberOfResults(p)
    IN  IF ~w.exists THEN FolderMissing(pn, << "exists" >>)
        ELSE IF w.init # "ok"
        THEN PlanDone(w.init, << >>, pn, NoPath, << "exists", "init_ras_project" >>)
        ELSE LET search == PlanHdfOfResults(pn, w)
                 made   == << "exists", "init_ras_project" >>
             IN  IF search.exc # "none"
                 THEN PlanDone(search.exc, << >>, pn, NoPath, made)
                 ELSE IF search.path = NoPath \/ ~PathExists(search.path, w)
                 THEN PlanMissing(pn, made)
                 ELSE PlanDone("none",
                               << Words(<< 4, 7, 8, PlanChars(pn) >>,
                                        << "results of" >> \o pn),
                                  Words(<< 3, 5, HdfPathChars(search.path) >>,
                                        << "hdf path" >> \o search.path.name),
                                  << Run("x", 80, << "rule" >>) >>,
                                  UnsteadyInfoEntry(w.results[1]),
                                  UnsteadySummaryEntry(w.results[2]),
                                  VolumeAccountingEntry(w.results[3]),
                                  RuntimeDataEntry(w.results[4]) >>,
                               pn, search.path, made \o ResultsLibraryCalls)

\* try block of get_compute_messages (lines 668-726); what
\* get_compute_messages_local makes of the file is modelled on its own, here
\* its text stands for the path it was given
ComputeMessagesBranch(p, w) ==
    LET pn == PlanNumberOfMessages(p)
    IN  IF ~w.exists THEN FolderMissing(pn, << "exists" >>)
        ELSE IF w.init # "ok"
        THEN PlanDone(w.init, << >>, pn, NoPath, << "exists", "init_ras_project" >>)
        ELSE LET search == PlanHdfOfMessages(pn, w)
                 made   == << "exists", "init_ras_project" >>
             IN  IF search.exc # "none"
                 THEN PlanDone(search.exc, << >>, pn, NoPath, made)
                 ELSE IF search.path = NoPath \/ ~PathExists(search.path, w)
                 THEN PlanMissing(pn, made)
                 ELSE PlanDone("none",
                               << << Run("x", HdfPathChars(search.path),
                                         << "compute messages of" >>
                                             \o search.path.name) >> >>,
                               pn, search.path,
                               Append(made, "get_compute_messages_local"))

\* the except clauses of the three branches (lines 540-551, 659-664,
\* 728-733): the text returned for an exception
PlanExceptText(t, exc, pn) ==
    CASE t = "read_plan_description" ->
            IF exc = "ValueError"
            THEN Words(<< 6, 4, PlanChars(pn) + 2, 3, 5, 2, 7 >>,
                       << "plan not in project" >> \o pn)
            ELSE Words(<< 5, 7, 4, 12, ExcChars(exc) >>, << "error", exc >>)
      [] t = "get_plan_results_summary" ->
            Words(<< 5, 7, 4, 7, 8, ExcChars(exc) >>, << "error", exc >>)
      [] t = "get_compute_messages" ->
            Words(<< 5, 7, 7, 9, ExcChars(exc) >>, << "error", exc >>)

\* the text of the TextContent the branch returns
PlanText(t, done) ==
    IF done.exc # "none" THEN PlanExceptText(t, done.exc, done.lookup)
    ELSE IF t = "get_plan_results_summary"
    THEN truncate_output(JoinParts(done.parts), DefaultMaxTokens)
    ELSE JoinParts(done.parts)

PlanTools ==
    { "read_plan_description", "get_plan_results_summary", "get_compute_messages" }

PlanBranch(t, p, w) ==
    CASE t = "read_plan_description"    -> PlanDescriptionBranch(p, w)
      [] t = "get_plan_results_summary" -> PlanResultsBranch(p, w)
      [] t = "get_compute_messages"     -> ComputeMessagesBranch(p, w)

(***************************************************************************)
(* Specification of the plan tools: one call of one tool on a project      *)
(***************************************************************************)
\* values of arguments["plan_number"]
RawPlanNumbers ==
    { << >>, << "1" >>, << "2" >>, << "0", "1" >>, << "0", "2" >>, << "1", "0" >>,
      << "0", "0", "1" >>, << "a" >>, << "*" >>, << "x", ".hdf" >>,
      << "P", ".p", "0", "1", ".hdf" >> }

HdfName(stem, nn) == << stem, ".p" >> \o nn \o << ".hdf" >>

PlanRow(pn, path) == [plan_number |-> pn, HDF_Results_Path |-> path]
PlanTable(keyed, has_path, rows) ==
    [kind |-> "frame", keyed |-> keyed, has_path |-> has_path, rows |-> rows]

\* ras.plan_df: None, without the plan_number column, without the
\* HDF_Results_Path column, and with rows for plans 01 and 02
PlanTables ==
    { NoneFrame,
      PlanTable(FALSE, TRUE, << >>),
      PlanTable(TRUE, TRUE, << >>),
      PlanTable(TRUE, FALSE, << PlanRow(<< "0", "1" >>, << >>) >>),
      PlanTable(TRUE, TRUE, << PlanRow(<< "0", "1" >>, HdfName("P", << "0", "1" >>)) >>),
      PlanTable(TRUE, TRUE, << PlanRow(<< "0", "1" >>, HdfName("Q", << "0", "1" >>)) >>),
      PlanTable(TRUE, TRUE, << PlanRow(<< "0", "1" >>, << >>),
                               PlanRow(<< "0", "2" >>, HdfName("P", << "0", "2" >>)) >>),
      PlanTable(TRUE, TRUE, << PlanRow(<< "0", "1" >>, HdfName("Q", << "0", "1" >>)),
                               PlanRow(<< "0", "1" >>, HdfName("P", << "0", "1" >>)) >>) }

\* the files of the project folder, in the order the folder lists them
Listings ==
    { << >>,
      << HdfName("P", << "0", "1" >>) >>,
      << HdfName("Q", << "0", "1" >>) >>,
      << HdfName("Q", << "0", "1" >>), HdfName("P", << "0", "1" >>) >>,
      << HdfName("Q", << "0", "2" >>), HdfName("P", << "0", "2" >>) >>,
      << HdfName("Q", << "0", "1" >>), HdfName("P", << "0", "2" >>),
         HdfName("P", << "0", "0", "1" >>) >>,
      << HdfName("P", << "x", ".hdf" >>), HdfName("Q", << "1", "0" >>) >> }

\* the files outside the folder that a plan_number given as a path can name
Outsides == { {}, { << "x", ".hdf" >> } }

LibraryResults == { "frame", "empty", "None", "raises", "huge" }

PlanProject(ex, in, table, listing, outside, description, results) ==
    [exists |-> ex, init |-> in, plan_df |-> table, listing |-> listing,
     outside |-> outside, description |-> description, results |-> results]

AllFrames == << "frame", "frame", "frame", "frame" >>

\* projects that differ in the plan table and the files
SearchProjects ==
    { PlanProject(TRUE, "ok", t, l, o, "text", AllFrames) :
          t \in PlanTables, l \in Listings, o \in Outsides }

\* projects that differ in what the folder check and the library do
LibraryProjects ==
    { PlanProject(x[1], x[2], PlanTable(TRUE, TRUE, << >>),
                  << HdfName("P", << "0", "1" >>) >>, {}, d, r) :
          x \in { << TRUE, "ok" >>, << FALSE, "ok" >>, << TRUE, "ValueError" >>,
                  << TRUE, "OSError" >> },
          d \in { "text", "empty", "ValueError" },
          r \in { AllFrames, << "raises", "None", "empty", "huge" >> } }

\* projects that differ in what the four results calls return
ResultsProjects ==
    { PlanProject(TRUE, "ok", PlanTable(TRUE, TRUE, << >>),
                  << HdfName("P", << "0", "1" >>) >>, {}, "text", r) :
          r \in [1..4 -> LibraryResults] }

InitPlan ==
    /\ \/ /\ tool \in PlanTools
          /\ plan_number \in RawPlanNumbers
          /\ project \in SearchProjects \cup LibraryProjects
       \/ /\ tool = "get_plan_results_summary"
          /\ plan_number \in { << "1" >>, << "0", "1" >> }
          /\ project \in ResultsProjects
    /\ plan_reply = << >>
    /\ OthersIdle("plan")
    /\ name = "" /\ arguments = << >> /\ env = << >>
    /\ calls = << >> /\ response = << >>
    /\ server_state = StartState /\ history = << >>
    /\ FmtIdle /\ GcmIdle

\* handle_call_tool for one of the three plan tools
CallPlanTool ==
    /\ tool \in PlanTools
    /\ plan_reply = << >>
    /\ LET done == PlanBranch(tool, plan_number, project)
       IN  plan_reply' = [exc |-> done.exc, parts |-> done.parts,
                          lookup |-> done.lookup, hdf |-> done.hdf,
                          calls |-> done.calls, text |-> PlanText(tool, done)]
    /\ UNCHANGED << tool, plan_number, project >>
    /\ OthersUnchanged("plan")
    /\ UNCHANGED << name, arguments, env, calls, response, server_state, history >>
    /\ UNCHANGED << fmtVars, gcmVars >>

NextPlan == CallPlanTool

SpecPlan == InitPlan /\ [][NextPlan]_vars

(***************************************************************************)
(* Claims about the plan tools                                             *)
(***************************************************************************)
PlanAnswered == tool \in PlanTools /\ plan_reply # << >>

\* C21: each of the three plan tools looks the plan up under the normalised
\* plan number: a plan_number of exactly one digit gets a zero in front, any
\* other plan_number is used as it is; the three tools normalise alike, and
\* normalising a normalised number changes nothing.
C21_PlanNumberNormalised ==
    PlanAnswered =>
        LET used == plan_reply.lookup
        IN  /\ (Len(plan_number) = 1 /\ plan_number[1] \in Digits)
                  => used = << "0" >> \o plan_number
            /\ ~(Len(plan_number) = 1 /\ plan_number[1] \in Digits)
                  => used = plan_number
            /\ used = PlanNumberOfDescription(plan_number)
            /\ used = PlanNumberOfResults(plan_number)
            /\ used = PlanNumberOfMessages(plan_number)
            /\ PlanNumberOfDescription(used) = used
            /\ PlanNumberOfResults(used) = used
            /\ PlanNumberOfMessages(used) = used

\* C21 witness: get_plan_results_summary called with "1" finds the file of
\* plan 01 through the plan table
C21_Witness ==
    /\ PlanAnswered
    /\ tool = "get_plan_results_summary"
    /\ plan_number = << "1" >>
    /\ plan_reply.lookup = << "0", "1" >>
    /\ plan_reply.hdf = InProject(HdfName("P", << "0", "1" >>))
    /\ ~IsNone(project.plan_df) /\ project.plan_df.rows # << >>

(***************************************************************************)
(* hecras_project_summary in detail                                        *)
(***************************************************************************)
ShowFlags ==
    << "show_rasprj", "show_plan_df", "show_geom_df", "show_flow_df",
       "show_unsteady_df", "show_boundaries", "show_rasmap" >>

\* the "default" entries of the tool's inputSchema (lines 264-303)
SchemaDefault(flag) ==
    CASE flag = "show_rasprj"      -> TRUE
      [] flag = "show_plan_df"     -> TRUE
      [] flag = "show_geom_df"     -> TRUE
      [] flag = "show_flow_df"     -> TRUE
      [] flag = "show_unsteady_df" -> TRUE
      [] flag = "show_boundaries"  -> TRUE
      [] flag = "show_rasmap"      -> FALSE
      [] flag = "showmore"         -> FALSE

\* arguments.get(key, default); a flag is "absent", "true" or "false"
Get(args, key, default) ==
    IF args[key] = "absent" THEN default ELSE args[key] = "true"

\* mutant: the RASMapper section is shown unless it is switched off
ReadFlag_RasmapOn(args, flag) == Get(args, flag, TRUE)

\* lines 409-416: the flags as the branch reads them
ReadFlag(args, flag) ==
    CASE flag = "show_rasprj"      -> Get(args, "show_rasprj", TRUE)
      [] flag = "show_plan_df"     -> Get(args, "show_plan_df", TRUE)
      [] flag = "show_geom_df"     -> Get(args, "show_geom_df", TRUE)
      [] flag = "show_flow_df"     -> Get(args, "show_flow_df", TRUE)
      [] flag = "show_unsteady_df" -> Get(args, "show_unsteady_df", TRUE)
      [] flag = "show_boundaries"  -> Get(args, "show_boundaries", TRUE)
      [] flag = "show_rasmap"      -> Get(args, "show_rasmap", FALSE)
      [] flag = "showmore"         -> Get(args, "showmore", FALSE)

\* hasattr(ras, attr) and ras.attr is not None
HasTable(r, attr) == r[attr].kind = "frame"

\* lines 440-463: the project file contents, or the line that says the file
\* could not be read
ProjectFileParts(r) ==
    IF r.prj_file = "unreadable"
    THEN << << Run("LF", 1, << "PROJECT FILE", "error" >>) >>
            \o Words(<< 7, 5, 5, 7, 4 >>, << "PROJECT FILE", "error" >>),
            << Run("x", 80, << "rule" >>) >> >>
    ELSE << << Run("LF", 1, << "PROJECT FILE CONTENTS", "heading" >>) >>
            \o Words(<< 7, 4, 8, 7 >>, << "PROJECT FILE CONTENTS", "heading" >>),
            << Run("x", 40, << "PROJECT FILE CONTENTS", "rule" >>) >>,
            Words(<< 4, 6 >>, << "PROJECT FILE CONTENTS", "lines" >>),
            << Run("x", 80, << "rule" >>) >> >>

\* one of the six `if show_... and hasattr(...) and ... is not None` blocks
TablePart(show, r, attr, title, df_type, showmore) ==
    IF show /\ HasTable(r, attr)
    THEN << dataframe_to_text(r[attr], title, df_type, showmore) >>
    ELSE << >>

\* try block of hecras_project_summary (lines 408-489), before the join
ProjectSummaryBranch(args, r) ==
    LET showmore == ReadFlag(args, "showmore")
    IN  IF ~r.exists
        THEN [exc |-> "none", joined |-> FALSE,
              parts |-> << Words(<< 6, 3, 9, 7, 6, 4, 3, 5, 2, 2, 3, 1, 10, PathChars >>,
                                 << "folder missing" >>) >>]
        ELSE IF r.init # "ok" THEN [exc |-> r.init, joined |-> FALSE, parts |-> << >>]
        ELSE [exc |-> "none", joined |-> TRUE,
              parts |->
                << Words(<< 7, 8, 1 >>, << "project" >>),
                   Words(<< 7, 5, PathChars >>, << "project path" >>),
                   Words(<< 7, 8, 3 >>, << "version" >>),
                   << Run("x", 80, << "rule" >>) >> >>
                \o (IF ReadFlag(args, "show_rasprj") /\ r.prj_file # "none"
                    THEN ProjectFileParts(r) ELSE << >>)
                \o TablePart(ReadFlag(args, "show_plan_df"), r, "plan_df",
                             SectionName(<< 5 >>, "PLANS"), "plan_df", showmore)
                \o TablePart(ReadFlag(args, "show_geom_df"), r, "geom_df",
                             SectionName(<< 10 >>, "GEOMETRIES"), "geom_df", showmore)
                \o TablePart(ReadFlag(args, "show_flow_df"), r, "flow_df",
                             SectionName(<< 6, 5 >>, "STEADY FLOWS"), "flow_df", showmore)
                \o TablePart(ReadFlag(args, "show_unsteady_df"), r, "unsteady_df",
                             SectionName(<< 8, 5 >>, "UNSTEADY FLOWS"), "unsteady_df",
                             showmore)
                \o TablePart(ReadFlag(args, "show_boundaries"), r, "boundaries_df",
                             SectionName(<< 8, 10 >>, "BOUNDARY CONDITIONS"),
                             "boundaries_df", showmore)
                \o TablePart(ReadFlag(args, "show_rasmap"), r, "rasmap_df",
                             SectionName(<< 6, 13 >>, "RASMAP CONFIGURATION"),
                             "rasmap_df", showmore)]

\* lines 496-501: the text of the except clause
SummaryExceptText(exc) ==
    Words(<< 5, 8, 7, 8, ExcChars(exc) >>, << "error", exc >>)
    \o << Run("LF", 2, << "error", exc >>) >>
    \o Words(<< 6, 7 >>, << "error", exc >>)
    \o << Run("LF", 1, << "error", exc >>) >>
    \o Words(<< 2, 3, 7, 4, 2, 7 >>, << "error", exc >>)
    \o << Run("LF", 1, << "error", exc >>) >>
    \o Words(<< 2, 7, 7, 2, 9, 2, 3, 8, 8 >>, << "error", exc >>)
    \o << Run("LF", 1, << "error", exc >>) >>
    \o Words(<< 2, 3, 7, 5, 3, 5 >>, << "error", exc >>)

\* the text of the TextContent the branch returns (lines 423-426, 491-501)
SummaryText(done) ==
    IF done.exc # "none" THEN SummaryExceptText(done.exc)
    ELSE IF ~done.joined THEN done.parts[1]
    ELSE truncate_output(JoinParts(done.parts), DefaultMaxTokens)

(***************************************************************************)
(* Specification of hecras_project_summary: one call on a project          *)
(***************************************************************************)
FlagValues == { "absent", "true", "false" }
FlagNames == Range(ShowFlags) \cup { "showmore" }

\* the tables of a project: two columns, one of them in the omit set of
\* plan_df, geom_df, flow_df, unsteady_df and boundaries_df
ProjectFrame == Frame(<< "name", "full_path" >>, << << Cell("n", 4), Cell("p", 30) >> >>)
LongFrame    == Frame(<< "name", "full_path" >>, << << Cell("n", 45000), Cell("p", 30) >> >>)
MissingAttr  == [kind |-> "missing"]

TableAttrs ==
    << "plan_df", "geom_df", "flow_df", "unsteady_df", "boundaries_df", "rasmap_df" >>

RasProject(ex, in, prj, tables) ==
    [exists |-> ex, init |-> in, prj_file |-> prj,
     plan_df |-> tables[1], geom_df |-> tables[2], flow_df |-> tables[3],
     unsteady_df |-> tables[4], boundaries_df |-> tables[5], rasmap_df |-> tables[6]]

FullProject == RasProject(TRUE, "ok", "file", [i \in 1..6 |-> ProjectFrame])

RasProjects ==
    { RasProject(TRUE, "ok", prj, t) :
          prj \in { "file", "none", "unreadable" },
          t \in [1..6 -> { ProjectFrame, NoneFrame }] }
    \cup
    { RasProject(TRUE, "ok", "file", [i \in 1..6 |-> IF i = k THEN f ELSE ProjectFrame]) :
          k \in 1..6, f \in { LongFrame, MissingAttr, EmptyFrame } }
    \cup
    { RasProject(FALSE, "ok", "file", [i \in 1..6 |-> ProjectFrame]),
      RasProject(TRUE, "ValueError", "file", [i \in 1..6 |-> ProjectFrame]) }

InitSummary ==
    /\ \/ /\ summary_arguments \in [FlagNames -> FlagValues]
          /\ ras = FullProject
       \/ /\ summary_arguments \in
                { [f \in FlagNames |-> v] : v \in FlagValues }
                \cup { [f \in FlagNames |-> IF f = "showmore" THEN "absent" ELSE "true"] }
          /\ ras \in RasProjects
    /\ summary_reply = << >>
    /\ OthersIdle("summary")
    /\ name = "" /\ arguments = << >> /\ env = << >>
    /\ calls = << >> /\ response = << >>
    /\ server_state = StartState /\ history = << >>
    /\ FmtIdle /\ GcmIdle

\* handle_call_tool for hecras_project_summary
CallProjectSummary ==
    /\ summary_arguments # << >>
    /\ summary_reply = << >>
    /\ LET done == ProjectSummaryBranch(summary_arguments, ras)
       IN  summary_reply' = [exc |-> done.exc, joined |-> done.joined,
                             parts |-> done.parts, text |-> SummaryText(done)]
    /\ UNCHANGED << summary_arguments, ras >>
    /\ OthersUnchanged("summary")
    /\ UNCHANGED << name, arguments, env, calls, response, server_state, history >>
    /\ UNCHANGED << fmtVars, gcmVars >>

NextSummary == CallProjectSummary

SpecSummary == InitSummary /\ [][NextSummary]_vars

(***************************************************************************)
(* Claims about hecras_project_summary                                     *)
(***************************************************************************)
\* the sections of the summary in the order of the specification, each with
\* its flag
SummarySections ==
    << [flag |-> "show_rasprj",      titles |-> { "PROJECT FILE CONTENTS", "PROJECT FILE" }],
       [flag |-> "show_plan_df",     titles |-> { "PLANS" }],
       [flag |-> "show_geom_df",     titles |-> { "GEOMETRIES" }],
       [flag |-> "show_flow_df",     titles |-> { "STEADY FLOWS" }],
       [flag |-> "show_unsteady_df", titles |-> { "UNSTEADY FLOWS" }],
       [flag |-> "show_boundaries",  titles |-> { "BOUNDARY CONDITIONS" }],
       [flag |-> "show_rasmap",      titles |-> { "RASMAP CONFIGURATION" }] >>

\* the flag as the specification reads it: the value given, else the default
\* the schema declares
FlagOrSchemaDefault(args, flag) ==
    IF args[flag] = "absent" THEN SchemaDefault(flag) ELSE args[flag] = "true"

\* position of the section a run belongs to, 0 for the header and the rules
SectionRank(run) ==
    LET at == { k \in 1..Len(SummarySections) : run.tag[1] \in SummarySections[k].titles }
    IN  IF at = {} THEN 0 ELSE CHOOSE k \in at : TRUE

SummaryAnswered ==
    summary_reply # << >> /\ summary_reply.exc = "none" /\ summary_reply.joined

\* the project has what the section shows
HasData(r, k) ==
    IF k = 1 THEN r.prj_file # "none" ELSE HasTable(r, TableAttrs[k - 1])

\* C22: a section of the summary is in the text only if its flag, or the
\* schema's default for an absent flag, is true (and it is there when the flag
\* is true, the project has the data and the text is not cut); the sections
\* stand in the fixed order, each in one piece.
C22_SectionsFollowFlags ==
    SummaryAnswered =>
        LET text  == summary_reply.text
            ranks == SelectSeq([i \in 1..Len(text) |-> SectionRank(text[i])],
                               LAMBDA k : k > 0)
            cut   == \E i \in 1..Len(text) : text[i].tag = << "notice" >>
        IN  /\ \A k \in 1..Len(SummarySections) :
                  LET shown == \E i \in 1..Len(ranks) : ranks[i] = k
                      flag  == FlagOrSchemaDefault(summary_arguments,
                                                   SummarySections[k].flag)
                  IN  /\ shown => flag
                      /\ (flag /\ HasData(ras, k) /\ ~cut) => shown
            /\ \A i, j \in 1..Len(ranks) : i <= j => ranks[i] <= ranks[j]

\* C22 witness: a request that gives no flag at all gets every section but
\* the RASMapper one, and one that switches plans off and RASMapper on gets
\* that choice
C22_Witness ==
    /\ SummaryAnswered
    /\ ras = FullProject
    /\ LET shown(t) == \E i \in 1..Len(summary_reply.text) :
                            summary_reply.text[i].tag[1] = t
       IN  \/ /\ \A f \in FlagNames : summary_arguments[f] = "absent"
              /\ shown("PLANS") /\ shown("BOUNDARY CONDITIONS")
              /\ ~shown("RASMAP CONFIGURATION")
           \/ /\ summary_arguments["show_plan_df"] = "false"
              /\ summary_arguments["show_rasmap"] = "true"
              /\ ~shown("PLANS") /\ shown("RASMAP CONFIGURATION")

(***************************************************************************)
(* filter_dataframe_columns called on its own                              *)
(***************************************************************************)
\* column labels of the tables tried: some of one omit set, some of several,
\* one of none
FilterLabels == { "plan_number", "full_path", "Geom File", "hdf_path", "geometry_number" }

\* most columns and rows of a table tried
MaxColumns == 3
MaxTableRows == 2

\* the sequences of distinct labels (a table of the library has no label twice)
LabelSeqs ==
    { c \in SeqsUpTo(FilterLabels, MaxColumns) :
          \A i, j \in 1..Len(c) : i # j => c[i] # c[j] }

\* the table with these columns and n rows; a cell holds its column and row
TableOf(columns, n) ==
    Frame(columns, [r \in 1..n |-> [c \in 1..Len(columns) |->
                                        Cell(<< columns[c], r >>, LabelChars)]])

FilterTables ==
    { NoneFrame } \cup { TableOf(c, n) : c \in LabelSeqs, n \in 0..MaxTableRows }

\* the df_type values: the five with an omit set, one without, None
FilterTypes ==
    { "plan_df", "geom_df", "flow_df", "unsteady_df", "boundaries_df", "rasmap_df", "" }

InitFilter ==
    /\ filter_call \in [df : FilterTables, df_type : FilterTypes, showmore : BOOLEAN]
    /\ filter_result = << >>
    /\ OthersIdle("filter")
    /\ name = "" /\ arguments = << >> /\ env = << >>
    /\ calls = << >> /\ response = << >>
    /\ server_state = StartState /\ history = << >>
    /\ FmtIdle /\ GcmIdle

CallFilter ==
    /\ filter_call # << >>
    /\ filter_result = << >>
    /\ filter_result' = filter_dataframe_columns(filter_call.df, filter_call.df_type,
                                                  filter_call.showmore)
    /\ UNCHANGED filter_call
    /\ OthersUnchanged("filter")
    /\ UNCHANGED << name, arguments, env, calls, response, server_state, history >>
    /\ UNCHANGED << fmtVars, gcmVars >>

NextFilter == CallFilter

SpecFilter == InitFilter /\ [][NextFilter]_vars

(***************************************************************************)
(* Claims about filter_dataframe_columns                                   *)
(***************************************************************************)
\* the omit set of each df_type (lines 191-214), as far as the labels tried go
OmitSetOf(df_type) ==
    CASE df_type = "plan_df"       -> { "full_path", "Geom File" }
      [] df_type = "geom_df"       -> { "full_path", "hdf_path" }
      [] df_type = "flow_df"       -> { "full_path" }
      [] df_type = "unsteady_df"   -> { "full_path" }
      [] df_type = "boundaries_df" -> { "full_path", "geometry_number" }
      [] OTHER                     -> {}

\* the positions of a table's columns that are kept, in order
KeptPositions(df, omit) ==
    SelectSeq([i \in 1..Len(df.columns) |-> i], LAMBDA i : df.columns[i] \notin omit)

\* C23: with showmore false, filter_dataframe_columns drops exactly the
\* columns in the omit set of the df_type and returns their number; with
\* showmore true, an empty or missing table or a df_type without omit set it
\* returns the table unchanged and 0; the rows and the order of the kept
\* columns are unchanged and the count is the number of columns that went.
C23_FilterDropsOmitSet ==
    filter_result # << >> =>
        LET df       == filter_call.df
            out      == filter_result[1]
            count    == filter_result[2]
            omit     == OmitSetOf(filter_call.df_type) \cap FilterLabels
            asis     == \/ filter_call.showmore
                        \/ IsNone(df)
                        \/ IsEmpty(df)
                        \/ OmitSetOf(filter_call.df_type) = {}
        IN  IF asis THEN out = df /\ count = 0
            ELSE LET kept == KeptPositions(df, omit)
                 IN  /\ out.kind = "frame"
                     /\ out.columns = [k \in 1..Len(kept) |-> df.columns[kept[k]]]
                     /\ Len(out.rows) = Len(df.rows)
                     /\ \A r \in 1..Len(df.rows) :
                            out.rows[r] = [k \in 1..Len(kept) |-> df.rows[r][kept[k]]]
                     /\ count = Cardinality({ i \in 1..Len(df.columns) :
                                                 df.columns[i] \in omit })
                     /\ count = Len(df.columns) - Len(out.columns)

\* C23 witness: a plan table loses its two omitted columns and keeps the
\* third, and the same table comes back whole with showmore
C23_Witness ==
    /\ filter_result # << >>
    /\ filter_call.df = TableOf(<< "full_path", "plan_number", "Geom File" >>, 2)
    /\ filter_call.df_type = "plan_df"
    /\ \/ /\ ~filter_call.showmore
          /\ filter_result[2] = 2
          /\ filter_result[1].columns = << "plan_number" >>
       \/ /\ filter_call.showmore
          /\ filter_result = << filter_call.df, 0 >>

SearchTools == { "get_plan_results_summary", "get_compute_messages" }

\* a search tool was called on a project whose folder exists and opens
Searched ==
    /\ PlanAnswered /\ tool \in SearchTools
    /\ project.exists /\ project.init = "ok"

\* the HDF_Results_Path of the first row of the plan table whose plan_number
\* is pn; << >> when there is no table, no such row, no such column or the
\* cell is empty
TablePath(pn, w) ==
    IF IsNone(w.plan_df) \/ ~w.plan_df.keyed \/ ~w.plan_df.has_path THEN << >>
    ELSE LET at == { i \in 1..Len(w.plan_df.rows) : w.plan_df.rows[i].plan_number = pn }
         IN  IF at = {} THEN << >>
             ELSE w.plan_df.rows[CHOOSE i \in at : \A k \in at : i <= k].HDF_Results_Path

\* first name of the folder that the pattern matches, NoPath when none does
FirstMatch(pattern, w) ==
    LET at == { i \in 1..Len(w.listing) : GlobMatch(pattern, w.listing[i]) }
    IN  IF at = {} THEN NoPath
        ELSE InProject(w.listing[CHOOSE i \in at : \A k \in at : i <= k])

\* the rule in the words of the specification: the file it names
RuleAsStated(pn, w) ==
    LET own   == ProjectName \o << ".p" >> \o pn \o << ".hdf" >>
        other == << "*", ".p" >> \o pn \o << ".hdf" >>
    IN  IF EndsWith(pn, << ".hdf" >>) /\ PathExists(AsGiven(pn), w) THEN AsGiven(pn)
        ELSE IF TablePath(pn, w) # << >> THEN InProject(TablePath(pn, w))
        ELSE IF PathExists(InProject(own), w) THEN InProject(own)
        ELSE FirstMatch(other, w)

\* the files the rule can name that are on disk
CandidatesOnDisk(pn, w) ==
    LET own   == ProjectName \o << ".p" >> \o pn \o << ".hdf" >>
        other == << "*", ".p" >> \o pn \o << ".hdf" >>
    IN  { c \in { AsGiven(pn), InProject(TablePath(pn, w)), InProject(own),
                  FirstMatch(other, w) } :
            /\ c # NoPath
            /\ c = AsGiven(pn) => EndsWith(pn, << ".hdf" >>)
            /\ PathExists(c, w) }

\* the rule as the two branches have it: the name of the project's own file
\* is matched as a pattern when the plan number holds a '*'
RuleAsCoded(pn, w) ==
    LET own   == ProjectName \o << ".p" >> \o pn \o << ".hdf" >>
        other == << "*", ".p" >> \o pn \o << ".hdf" >>
    IN  IF EndsWith(pn, << ".hdf" >>) /\ PathExists(AsGiven(pn), w) THEN AsGiven(pn)
        ELSE IF TablePath(pn, w) # << >> THEN InProject(TablePath(pn, w))
        ELSE IF Contains(pn, "*") /\ FirstMatch(own, w) # NoPath THEN FirstMatch(own, w)
        ELSE IF ~Contains(pn, "*") /\ PathExists(InProject(own), w) THEN InProject(own)
        ELSE FirstMatch(other, w)

\* the reply is the text "Error: Plan '<NN>' not found or has no results HDF
\* file"
SaysPlanMissing ==
    /\ plan_reply.exc = "none"
    /\ plan_reply.text # << >>
    /\ plan_reply.text[1].tag = << "plan missing" >> \o plan_reply.lookup

\* both copies of the search give the reply's file, or its exception
BothSearchesAgree ==
    LET pn == plan_reply.lookup
        a  == PlanHdfOfResults(pn, project)
        b  == PlanHdfOfMessages(pn, project)
        picked(r) == IF r.exc = "none" /\ r.path # NoPath /\ PathExists(r.path, project)
                     THEN r.path ELSE NoPath
    IN  /\ a.exc = plan_reply.exc /\ b.exc = plan_reply.exc
        /\ picked(a) = plan_reply.hdf /\ picked(b) = plan_reply.hdf

\* C25 as stated: both tools resolve the plan number by the rule (the path
\* itself, the table's path, the project's own file, the first *.pNN.hdf),
\* pick the same file, and return the "not found" error exactly when no
\* candidate is on disk.
C25_SameRuleAsStated ==
    Searched =>
        /\ BothSearchesAgree
        /\ plan_reply.exc = "none"
        /\ plan_reply.hdf # NoPath
              => plan_reply.hdf = RuleAsStated(plan_reply.lookup, project)
        /\ SaysPlanMissing <=> CandidatesOnDisk(plan_reply.lookup, project) = {}

\* C25 (amended): both tools resolve the plan number alike: both raise the
\* same exception in the table lookup, or both take the file of the rule, in
\* which a table path is final whether or not it is on disk and the
\* project's own file name is a pattern when the plan number holds '*'; both
\* return the "not found" error exactly when the rule names no file or a file
\* that is not on disk.
C25_SameFileOrSameError ==
    Searched =>
        /\ BothSearchesAgree
        /\ plan_reply.exc # "none"
              => /\ plan_reply.exc = "KeyError"
                 /\ ~IsNone(project.plan_df) /\ ~project.plan_df.keyed
                 /\ plan_reply.hdf = NoPath
        /\ plan_reply.exc = "none"
              => LET c == RuleAsCoded(plan_reply.lookup, project)
                 IN  /\ plan_reply.hdf =
                            (IF c # NoPath /\ PathExists(c, project) THEN c ELSE NoPath)
                     /\ SaysPlanMissing <=> plan_reply.hdf = NoPath

\* C25 witness: get_compute_messages finds the file of plan 01 by the last
\* step, the pattern *.p01.hdf, where the second of two files is the project's
\* own; or it returns the error because the table names a file that is gone
\* while the project's own file is there
C25_Witness ==
    /\ Searched
    /\ tool = "get_compute_messages"
    /\ plan_reply.lookup = << "0", "1" >>
    /\ \/ /\ project.listing = << HdfName("Q", << "0", "1" >>) >>
          /\ TablePath(plan_reply.lookup, project) = << >>
          /\ plan_reply.hdf = InProject(HdfName("Q", << "0", "1" >>))
       \/ /\ project.listing = << HdfName("P", << "0", "1" >>) >>
          /\ TablePath(plan_reply.lookup, project) = HdfName("Q", << "0", "1" >>)
          /\ SaysPlanMissing

(***************************************************************************)
(* Claims about the entries of get_plan_results_summary                    *)
(***************************************************************************)
ResultsTitles ==
    << "UNSTEADY INFO", "UNSTEADY SUMMARY", "VOLUME ACCOUNTING", "RUNTIME DATA" >>

\* get_plan_results_summary found the results file
ResultsResolved ==
    /\ PlanAnswered /\ tool = "get_plan_results_summary"
    /\ plan_reply.exc = "none" /\ plan_reply.hdf # NoPath

\* what entry k is, given what its library call did: a table, the line of
\* dataframe_to_text for no data, the line "... not available" of the
\* handler, or the line with the exception's message
EntryKind(k, o) ==
    CASE o = "raises"           -> "error"
      [] o = "None" /\ k >= 3   -> "not available"
      [] o \in { "None", "empty" } -> "no data"
      [] OTHER                  -> "table"

ExpectedEntries ==
    [k \in 1..4 |-> << ResultsTitles[k], EntryKind(k, project.results[k]) >>]

\* the entries of a text in the order they stand in it: the tags of its
\* runs that belong to an entry, a tag once for each stretch of runs
EntriesOf(text) ==
    LET t     == SelectSeq(text, LAMBDA r : r.tag[1] \in Range(ResultsTitles))
        first == { i \in 1..Len(t) : i = 1 \/ t[i].tag # t[i - 1].tag }
    IN  [k \in 1..Cardinality(first) |->
            t[CHOOSE i \in first : Cardinality({ j \in first : j < i }) = k - 1].tag]

IsPrefixOf(a, b) == Len(a) <= Len(b) /\ a = SubSeq(b, 1, Len(a))

\* C26 as stated: once the file is resolved, the text of
\* get_plan_results_summary always holds exactly one entry for each of
\* unsteady info, unsteady summary, volume accounting and runtime data, in
\* that order, whatever the library calls did.
C26_FourEntriesAlwaysEmitted ==
    ResultsResolved => EntriesOf(plan_reply.text) = ExpectedEntries

\* C26 (amended): once the file is resolved, all four library calls are made
\* and each adds exactly one entry to the parts, in that order, a call that
\* raises or returns nothing giving a line for its entry only; the text holds
\* the four entries unless the joined parts are longer than the output limit,
\* and then it holds the entries up to the cut and the truncation notice.
C26_FourEntriesUnlessCut ==
    ResultsResolved =>
        LET parts  == plan_reply.parts
            joined == JoinParts(parts)
            limit  == 4 * DefaultMaxTokens
        IN  /\ Len(parts) = 3 + Len(ResultsTitles)
            /\ \A k \in 1..4 :
                  /\ parts[3 + k] # << >>
                  /\ \A i \in 1..Len(parts[3 + k]) :
                        parts[3 + k][i].tag = ExpectedEntries[k]
            /\ SubSeq(plan_reply.calls, Len(plan_reply.calls) - 3, Len(plan_reply.calls))
                  = ResultsLibraryCalls
            /\ EntriesOf(joined) = ExpectedEntries
            /\ RunsLen(joined) <= limit => plan_reply.text = joined
            /\ RunsLen(joined) > limit =>
                  /\ IsPrefixOf(EntriesOf(plan_reply.text), ExpectedEntries)
                  /\ plan_reply.text[Len(plan_reply.text)].tag = << "notice" >>

\* C26 witness: the first call raises, the second returns None, the third
\* returns an empty table and the fourth a table: four entries; or every
\* call raises and there are four error lines
C26_Witness ==
    /\ ResultsResolved
    /\ \/ project.results = << "raises", "None", "empty", "frame" >>
       \/ project.results = << "raises", "raises", "raises", "raises" >>
    /\ EntriesOf(plan_reply.text) = ExpectedEntries
    /\ Len(EntriesOf(plan_reply.text)) = 4

(***************************************************************************)
(* Claims about the path check of the tools                                *)
(***************************************************************************)
\* the text a tool returns when its path does not exist
DoesNotExistText(branch) ==
    CASE branch = "hecras_project_summary" ->
            << "Error: The specified project folder does not exist or is not a directory: ",
               "project_path" >>
      [] branch \in { "read_plan_description", "get_plan_results_summary",
                      "get_compute_messages" } ->
            << "Error: The specified project folder does not exist: ", "project_path" >>
      [] branch \in { "get_hdf_structure", "get_projection_info" } ->
            << "Error: The specified HDF file does not exist: ", "hdf_path" >>

\* C27: a tool makes no library call and opens no file before it has checked
\* that its path exists; when the check fails the tool returns its "does not
\* exist" text and the check is the only call of the request.
C27_PathCheckedFirst ==
    (Answered /\ response.branch \in ListedTools) =>
        /\ calls # << >> => calls[1] = "exists"
        /\ \A i \in 1..Len(calls) : (i > 1 \/ calls[i] # "exists") => env.path_ok
        /\ (calls # << >> /\ ~env.path_ok) =>
              /\ calls = << "exists" >>
              /\ response.raised = "none"
              /\ response.items = << TextContent(DoesNotExistText(response.branch)) >>

\* C27 witness: get_hdf_structure is called in full mode with a path that
\* does not exist; the check is its only call
C27_Witness ==
    /\ Answered
    /\ name = "get_hdf_structure" /\ ~arguments.paths_only
    /\ ~env.path_ok
    /\ calls = << "exists" >>
    /\ response.items = << TextContent(DoesNotExistText("get_hdf_structure")) >>

(***************************************************************************)
(* Request handlers on the event loop                                      *)
(*                                                                         *)
(* The server runs every handle_call_tool as a coroutine on one event      *)
(* loop: a handler runs until it awaits or returns, and only then can the  *)
(* loop run another one.  sys.stdout is one reference for the process.     *)
(***************************************************************************)
\* number of requests in flight
MaxHandlers == 2

\* "full": get_hdf_structure without paths_only; "other": any other request,
\* whose library call may print as well
HandlerModes == { "full", "other" }

\* mutant: the handler awaits between the redirect and the library call
YieldsAt_AfterRedirect(pos) == pos \in { "redirected", "returned" }

\* where handle_call_tool gives the control back to the loop: its body holds
\* no await (lines 402-852), so only where it returns
YieldsAt(pos) == pos = "returned"

\* print(...) inside the library: the text goes to whatever sys.stdout is
PrintBy(h, out, ts, con) ==
    IF out = 0 THEN [tasks |-> ts, console |-> Append(con, h)]
    ELSE [tasks |-> [ts EXCEPT ![out].buffer = Append(@, h)], console |-> con]

InitLoop ==
    /\ tasks \in [1..MaxHandlers ->
                     [mode : HandlerModes, library : { "ok", "raises" },
                      pos : { "pending" }, old_stdout : { 0 }, buffer : { << >> }]]
    /\ running = 0
    /\ sys_stdout = 0
    /\ console = << >>
    /\ OthersIdle("loop")
    /\ name = "" /\ arguments = << >> /\ env = << >>
    /\ calls = << >> /\ response = << >>
    /\ server_state = StartState /\ history = << >>
    /\ FmtIdle /\ GcmIdle

LoopRest ==
    /\ OthersUnchanged("loop")
    /\ UNCHANGED << name, arguments, env, calls, response, server_state, history >>
    /\ UNCHANGED << fmtVars, gcmVars >>

\* the loop starts a pending handler, or goes on with one that awaited
RunHandler(h) ==
    /\ running = 0
    /\ tasks[h].pos # "returned"
    /\ running' = h
    /\ tasks' = IF tasks[h].pos = "pending" THEN [tasks EXCEPT ![h].pos = "entered"]
                 ELSE tasks
    /\ UNCHANGED << sys_stdout, console >>
    /\ LoopRest

\* lines 785-786: old_stdout = sys.stdout; sys.stdout = buffer = io.StringIO()
Redirect(h) ==
    /\ running = h
    /\ tasks[h].mode = "full" /\ tasks[h].pos = "entered"
    /\ tasks' = [tasks EXCEPT ![h].old_stdout = sys_stdout,
                               ![h].buffer = << >>,
                               ![h].pos = "redirected"]
    /\ sys_stdout' = h
    /\ running' = IF YieldsAt("redirected") THEN 0 ELSE h
    /\ UNCHANGED console
    /\ LoopRest

\* line 789, HdfBase.get_dataset_info, or the library call of another tool:
\* it prints, and returns or raises
LibraryCall(h) ==
    /\ running = h
    /\ \/ tasks[h].mode = "full" /\ tasks[h].pos = "redirected"
       \/ tasks[h].mode = "other" /\ tasks[h].pos = "entered"
    /\ LET printed == PrintBy(h, sys_stdout, tasks, console)
           after   == IF tasks[h].library = "ok" THEN "called" ELSE "raised"
       IN  /\ tasks' = [printed.tasks EXCEPT ![h].pos = after]
           /\ console' = printed.console
           /\ running' = IF YieldsAt(after) THEN 0 ELSE h
    /\ UNCHANGED sys_stdout
    /\ LoopRest

\* lines 791-793: finally: sys.stdout = old_stdout, after the call returned
\* or raised
Restore(h) ==
    /\ running = h
    /\ tasks[h].mode = "full" /\ tasks[h].pos \in { "called", "raised" }
    /\ sys_stdout' = tasks[h].old_stdout
    /\ tasks' = [tasks EXCEPT ![h].pos = IF @ = "called" THEN "restored" ELSE "failed"]
    /\ running' = h
    /\ UNCHANGED console
    /\ LoopRest

\* the return of the branch or of its except clause (lines 802-812)
ReturnText(h) ==
    /\ running = h
    /\ \/ tasks[h].mode = "full" /\ tasks[h].pos \in { "restored", "failed" }
       \/ tasks[h].mode = "other" /\ tasks[h].pos \in { "called", "raised" }
    /\ tasks' = [tasks EXCEPT ![h].pos = "returned"]
    /\ running' = IF YieldsAt("returned") THEN 0 ELSE h
    /\ UNCHANGED << sys_stdout, console >>
    /\ LoopRest

NextLoop ==
    \/ \E h \in 1..MaxHandlers : RunHandler(h)
    \/ \E h \in 1..MaxHandlers : Redirect(h)
    \/ \E h \in 1..MaxHandlers : LibraryCall(h)
    \/ \E h \in 1..MaxHandlers : Restore(h)
    \/ \E h \in 1..MaxHandlers : ReturnText(h)

SpecLoop == InitLoop /\ [][NextLoop]_vars

(***************************************************************************)
(* Claims about the redirected standard output                             *)
(***************************************************************************)
\* C28: whenever another handler can run (no handler is running: one has
\* awaited or returned), sys.stdout is the original stream; a handler that
\* has redirected it is still the running one until it has restored it, on
\* the path of a library exception too; and the buffer of a handler holds
\* nothing but what its own library call printed.
C28_StdoutOriginalBetweenHandlers ==
    tasks # << >> =>
        /\ running = 0 => sys_stdout = 0
        /\ \A h \in DOMAIN tasks :
              /\ tasks[h].pos \in { "redirected", "called", "raised" }
                 /\ tasks[h].mode = "full" => running = h /\ sys_stdout = h
              /\ tasks[h].pos \in { "restored", "failed", "returned" } => sys_stdout # h
              /\ \A i \in 1..Len(tasks[h].buffer) : tasks[h].buffer[i] = h
              /\ tasks[h].old_stdout = 0

\* C28 witness: a full-mode request whose library call raised has returned,
\* standard output is the original stream again, and a second request has
\* printed to it
C28_Witness ==
    /\ tasks # << >>
    /\ \E h, g \in DOMAIN tasks :
          /\ tasks[h].mode = "full" /\ tasks[h].library = "raises"
          /\ tasks[h].pos = "returned"
          /\ tasks[h].buffer = << h >>
          /\ g # h /\ tasks[g].mode = "other" /\ tasks[g].pos = "returned"
          /\ Contains(console, g)
    /\ sys_stdout = 0 /\ running = 0

(***************************************************************************)
(* truncate_output called on its own                                       *)
(***************************************************************************)
\* largest max_tokens tried; the limit is four characters for each token
MaxTokens == 3

\* most spaces in a row, and most characters after a space, in a text tried
MaxGap == 2

\* the texts tried: letters, spaces, letters, spaces and letters again, the
\* first stretch up to one character beyond the largest limit
PlainTexts ==
    { SelectSeq(<< Run("x", n[1], << "text" >>), Run("SP", n[2], << "text" >>),
                   Run("x", n[3], << "text" >>), Run("SP", n[4], << "text" >>),
                   Run("x", n[5], << "text" >>) >>,
                LAMBDA r : r.n > 0) :
          n \in (0..(4 * MaxTokens + 1)) \X (0..MaxGap) \X (0..MaxGap)
                   \X (0..1) \X (0..1) }

\* texts that end with the truncation notice, as a text does that was
\* truncated before
NoticedTexts ==
    { << Run("x", a, << "text" >>) >> \o TruncationNotice : a \in 1..(4 * MaxTokens) }

InitTrunc ==
    /\ truncate_call \in [text : PlainTexts \cup NoticedTexts, max_tokens : 0..MaxTokens]
    /\ truncate_result = << >>
    /\ OthersIdle("truncate")
    /\ name = "" /\ arguments = << >> /\ env = << >>
    /\ calls = << >> /\ response = << >>
    /\ server_state = StartState /\ history = << >>
    /\ FmtIdle /\ GcmIdle

\* truncate_output(text, max_tokens); the result is kept in a record, an
\* empty text being a result as well
CallTruncate ==
    /\ truncate_call # << >>
    /\ truncate_result = << >>
    /\ truncate_result' =
          [text |-> truncate_output(truncate_call.text, truncate_call.max_tokens)]
    /\ UNCHANGED truncate_call
    /\ OthersUnchanged("truncate")
    /\ UNCHANGED << name, arguments, env, calls, response, server_state, history >>
    /\ UNCHANGED << fmtVars, gcmVars >>

NextTrunc == CallTruncate

SpecTrunc == InitTrunc /\ [][NextTrunc]_vars

(***************************************************************************)
(* Claims about truncate_output                                            *)
(***************************************************************************)
\* the characters of a text, one after the other
RunChars(t) == Flatten([i \in 1..Len(t) |-> Repeat(t[i].ch, t[i].n)])

\* length of the prefix of the text that the specification says is kept:
\* the limit, or the index of the last space in the first limit characters
\* when that index is above 90% of the limit
KeptLen(chars, limit) ==
    LET spaces == { i \in 0..(limit - 1) : chars[i + 1] = "SP" }
        last   == IF spaces = {} THEN -1
                  ELSE CHOOSE i \in spaces : \A j \in spaces : j <= i
    IN  IF 10 * last > 9 * limit THEN last ELSE limit

\* the result is the kept prefix and the notice
PrefixAndNotice(chars, limit, out) ==
    LET k == KeptLen(chars, limit)
    IN  /\ out = SubSeq(chars, 1, k) \o RunChars(TruncationNotice)
        /\ k <= limit
        /\ Len(out) <= limit + TruncationNoticeLen

\* C29 as stated: the text comes back unchanged exactly when it is no longer
\* than 4 x max_tokens; otherwise the result is the kept prefix and the
\* notice, and the kept prefix is always longer than 90% of the limit.
C29_UnchangedIffShort ==
    truncate_result # << >> =>
        LET text  == truncate_call.text
            chars == RunChars(text)
            limit == 4 * truncate_call.max_tokens
            out   == RunChars(truncate_result.text)
        IN  /\ truncate_result.text = text <=> Len(chars) <= limit
            /\ Len(chars) > limit =>
                  /\ PrefixAndNotice(chars, limit, out)
                  /\ 10 * KeptLen(chars, limit) > 9 * limit

\* C29 (amended): a text no longer than 4 x max_tokens comes back unchanged;
\* a longer one comes back as the kept prefix and the notice (which is the
\* text itself only if the text already ends with the notice behind that
\* prefix); the kept prefix is longer than 90% of the limit when the limit
\* is positive and empty when the limit is 0; the result is never longer
\* than the limit plus the notice.
C29_PrefixAndNotice ==
    truncate_result # << >> =>
        LET text  == truncate_call.text
            chars == RunChars(text)
            limit == 4 * truncate_call.max_tokens
            out   == RunChars(truncate_result.text)
            k     == KeptLen(chars, limit)
        IN  /\ Len(chars) <= limit => truncate_result.text = text
            /\ Len(chars) > limit =>
                  /\ PrefixAndNotice(chars, limit, out)
                  /\ limit > 0 => 10 * k > 9 * limit
                  /\ limit = 0 => k = 0
                  /\ truncate_result.text = text
                        <=> chars = SubSeq(chars, 1, k) \o RunChars(TruncationNotice)
            /\ Len(out) <= Max(Len(chars), limit + TruncationNoticeLen)

\* C29 witness: with max_tokens 3 a text of eleven letters, a space and more
\* is cut before the space, which stands beyond 90% of the twelve characters;
\* a text whose last space stands earlier is cut at twelve characters
C29_Witness ==
    /\ truncate_result # << >>
    /\ truncate_call.max_tokens = 3
    /\ \/ /\ truncate_call.text = << Run("x", 11, << "text" >>), Run("SP", 1, << "text" >>),
                                      Run("x", 2, << "text" >>) >>
          /\ truncate_result.text = << Run("x", 11, << "text" >>) >> \o TruncationNotice
       \/ /\ truncate_call.text = << Run("x", 10, << "text" >>), Run("SP", 1, << "text" >>),
                                      Run("x", 2, << "text" >>) >>
          /\ truncate_result.text = << Run("x", 10, << "text" >>), Run("SP", 1, << "text" >>),
                                       Run("x", 1, << "text" >>) >> \o TruncationNotice

(***************************************************************************)
(* Claims about the head and the tail of a truncated compute-message text  *)
(***************************************************************************)
\* how many pieces of line i of the formatted text the returned text holds
PiecesOfLine(i) ==
    SumSeq([k \in 1..Len(result.lines) |->
              Cardinality({ q \in 1..Len(result.lines[k]) :
                              /\ result.lines[k][q].src = "text"
                              /\ result.lines[k][q].line = i })])

\* C30: in a truncated result the head ends before the first of the
\* preserved last lines begins, so no line of the formatted text stands twice
\* in the result, also when the formatted text has 50 lines or fewer or the
\* last 50 lines alone exceed the budget.
C30_HeadAndTailDisjoint ==
    Truncated =>
        /\ result.head_len <= LineStarts(Formatted)[result.tail_start]
        /\ \A i \in 1..Len(Formatted) : PiecesOfLine(i) <= 1

====
